---- MODULE Spec2Model ----
(***************************************************************************)
(* A model of the signing-session registry of hyperliquid/exchange.py      *)
(* (Exchange), of the phantom-session builder of                           *)
(* hyperliquid_local/phantom_bot.py and of the sponge padding of the       *)
(* Keccak-256 copies in scripts/scan_hyperliquid_vaults.py,                *)
(* find_solara_vaults.py and tests/vault_scanner_utils_test.py.            *)
(*                                                                         *)
(* Conventions.  A Python str is a sequence of one-character strings, so   *)
(* that str.lower() is a computation.  None is NoneAddr where an address   *)
(* is expected and NoneInt where an integer is expected.                   *)
(***************************************************************************)
EXTENDS Integers, Sequences, FiniteSets, TLC

VARIABLES
    \* ---- Exchange object (hyperliquid/exchange.py) ----
    wallet,            \* self.wallet.address, NoneAddr when the wallet has none
    account_address,   \* self.account_address
    vault_address,     \* self.vault_address
    expires_after,     \* self.expires_after
    is_mainnet_url,    \* self.base_url == MAINNET_API_URL
    unsigned_actions,  \* self._unsigned_actions: insertion-ordered dict
    posted,            \* payloads handed to self.post, in order
    signed,            \* number of wallet signing calls made so far
    op,                \* the call made by the last step, with its arguments
    ret,               \* what that call returned or raised
    before,            \* history: the Exchange state when that call started
    history,           \* history: the records queued and not cleared since, in call order
    \* ---- threads sharing one Exchange ----
    pc,                \* per thread: position inside its current call
    frame,             \* per thread: locals of its current call
    appended,          \* history: the records whose list.append has completed
    snapshots,         \* the last finished pending_unsigned_actions call, if any
    \* ---- phantom sessions (hyperliquid_local/phantom_bot.py) ----
    sessions,          \* the last pair of sessions prepared from one input
    \* ---- Keccak-256 copies ----
    kdata,             \* the input bytes
    kscan,             \* run of scripts/scan_hyperliquid_vaults.keccak256
    ksolara,           \* run of find_solara_vaults.keccak
    kref,              \* run of _keccak256_reference
    \* ---- signature and claim tooling ----
    signature_run,     \* a signature handed to a normaliser, and what came of it
    enforce_run,       \* a run of the claim verification (codex_enforce and wrappers)
    github_run,        \* a call of the GitHub commit helpers (hyperliquid/github.py)
    claim_files,       \* a claim written by write_claim_files, and its later validation
    \* ---- ledger, explorer, withdrawal and registry utilities ----
    payments_run,      \* a call of extract_payment_settlements and total_settlement_amount
    scan_run,          \* a run of scan_network (scan_user_proof_hub.py)
    report_run,        \* a call of build_proof_report
    withdraw_run,      \* a call of perform_withdrawal
    fetch_run,         \* a call of fetch_json (scan_userproofhub.py)
    registry_run,      \* a registry list under upsert_registry_entry
    builder_run,       \* a call of filter_builder_codes
    search_run,        \* an iteration of BlockscoutExplorer.iter_text_search
    \* ---- the caller's side of the pending registry ----
    caller_run         \* the list pending_unsigned_actions last returned, in its caller's hands

exchangeVars == <<wallet, account_address, vault_address, expires_after,
                  is_mainnet_url, unsigned_actions, posted, signed, op, ret,
                  before, history>>
threadVars == <<pc, frame, appended, snapshots>>
keccakVars == <<kdata, kscan, ksolara, kref>>
ownUtilityVars == <<payments_run, scan_run, report_run, withdraw_run, fetch_run, registry_run,
                    builder_run, search_run>>
utilityVars == <<ownUtilityVars, caller_run>>
toolVars == <<signature_run, enforce_run, github_run, claim_files, utilityVars>>
\* everything but the Exchange and the list its caller holds
callerFrame == <<pc, frame, appended, snapshots, sessions, kdata, kscan, ksolara, kref,
                 signature_run, enforce_run, github_run, claim_files, ownUtilityVars>>
vars == <<wallet, account_address, vault_address, expires_after,
          is_mainnet_url, unsigned_actions, posted, signed, op, ret,
          before, history, pc, frame, appended, snapshots, sessions, kdata, kscan, ksolara, kref,
          signature_run, enforce_run, github_run, claim_files,
          payments_run, scan_run, report_run, withdraw_run, fetch_run, registry_run,
          builder_run, search_run, caller_run>>

-----------------------------------------------------------------------------
(* Bounds of the model *)

\* records the registry holds at once
MaxRecords == 3
\* the same, where the payload of bulk_orders_tx is examined
MaxTxRecords == 2
\* the same, where threads share the Exchange
MaxThreadRecords == 2
\* posts made to the transport
MaxPosts == 2

-----------------------------------------------------------------------------
(* Python values *)

NoneAddr == <<"None">>
NoneInt == -1
EmptyStr == <<>>

\* bool(x) of an Optional[str]
Truthy(s) == s # NoneAddr /\ s # EmptyStr

LowerChar(c) ==
    CASE c = "A" -> "a"
      [] c = "B" -> "b"
      [] c = "C" -> "c"
      [] c = "D" -> "d"
      [] c = "E" -> "e"
      [] c = "F" -> "f"
      [] OTHER -> c

\* str.lower()
Lower(s) == [i \in DOMAIN s |-> LowerChar(s[i])]

\* spellings of signer addresses handed to the Exchange
Addr1 == <<"0", "x", "A", "b">>
Addr1Lower == <<"0", "x", "a", "b">>
Addr1Upper == <<"0", "x", "A", "B">>
Addr2 == <<"0", "x", "c", "D">>
Addr2Lower == <<"0", "x", "c", "d">>
Addresses == {Addr1, Addr1Lower, Addr1Upper, Addr2, Addr2Lower}

VaultAddr == <<"0", "x", "1", "7">>
BuilderAddr == <<"0", "x", "B", "e">>

-----------------------------------------------------------------------------
(* hyperliquid/utils/signing.py and Info.name_to_asset: the helpers the     *)
(* Exchange calls.  An action hash is represented by the byte layout that  *)
(* is hashed (the hash is taken to be collision free).                     *)

\* decimal digits of a natural number, most significant first
RECURSIVE DecStr(_)
DecStr(n) ==
    LET d == <<"0", "1", "2", "3", "4", "5", "6", "7", "8", "9">>
    IN  IF n < 10 THEN <<d[n + 1]>> ELSE DecStr(n \div 10) \o <<d[(n % 10) + 1]>>

\* the coins Info.coin_to_asset holds for the meta the session was given
KnownCoins == {"ETH", "BTC"}
name_to_asset(name) == IF name = "ETH" THEN 0 ELSE 1

order_request_to_order_wire(order, asset) ==
    [a |-> asset, b |-> order.is_buy, p |-> DecStr(order.limit_px),
     s |-> DecStr(order.sz), r |-> order.reduce_only, t |-> "Gtc"]

NoBuilder == [b |-> NoneAddr, f |-> 0]

order_wires_to_order_action(order_wires, builder) ==
    [type |-> "order", orders |-> order_wires, grouping |-> "na", builder |-> builder]

\* action_bytes || nonce || vault flag || [vault] || expiry flag || [expiry]
action_hash(action, vault, nonce, expires) ==
    [action |-> action,
     nonce |-> nonce,
     hasVault |-> vault # NoneAddr,
     vault |-> IF vault = NoneAddr THEN EmptyStr ELSE Lower(vault),
     hasExpiry |-> expires # NoneInt,
     expiry |-> IF expires = NoneInt THEN 0 ELSE expires]

construct_phantom_agent(hash, is_mainnet) ==
    [source |-> IF is_mainnet THEN "a" ELSE "b", connectionId |-> hash]

l1_payload(phantom_agent) ==
    [domain |-> [name |-> "Exchange", version |-> "1", chainId |-> 1337,
                 verifyingContract |-> "0x0000000000000000000000000000000000000000"],
     primaryType |-> "Agent",
     message |-> phantom_agent]

get_l1_action_data(action, vault, nonce, expires, is_mainnet) ==
    l1_payload(construct_phantom_agent(action_hash(action, vault, nonce, expires), is_mainnet))

\* sign_l1_action: the wallet's signature over the typed data
sign_l1_action(w, action, vault, nonce, expires, is_mainnet) ==
    [signer |-> w, over |-> get_l1_action_data(action, vault, nonce, expires, is_mainnet)]

\* json.loads(json.dumps(x)) of a value built from str, int, bool, list and dict
JsonRoundTrip(x) == x

-----------------------------------------------------------------------------
(* The insertion-ordered dict self._unsigned_actions: a sequence of         *)
(* entries [key, records], one per key, in insertion order.                *)

DictKeys(d) == {d[i].key : i \in DOMAIN d}

DictIndex(d, k) == CHOOSE i \in DOMAIN d : d[i].key = k

\* d.get(k, [])
DictGet(d, k) == IF k \in DictKeys(d) THEN d[DictIndex(d, k)].records ELSE <<>>

\* d.setdefault(k, [])
DictSetDefault(d, k) ==
    IF k \in DictKeys(d) THEN d ELSE Append(d, [key |-> k, records |-> <<>>])

\* d[k].append(record), k being a key of d
ListAppend(d, k, record) ==
    [d EXCEPT ![DictIndex(d, k)].records = Append(@, record)]

\* d.pop(k, None)
DictPop(d, k) ==
    IF k \in DictKeys(d)
    THEN SubSeq(d, 1, DictIndex(d, k) - 1) \o SubSeq(d, DictIndex(d, k) + 1, Len(d))
    ELSE d

\* [record for records in d.values() for record in records]
RECURSIVE DictAllValues(_)
DictAllValues(d) ==
    IF d = <<>> THEN <<>> ELSE Head(d).records \o DictAllValues(Tail(d))

-----------------------------------------------------------------------------
(* Exchange: the calls of one signing session, made one after another.     *)

Return(v) == [kind |-> "return", val |-> v]
Raise(e) == [kind |-> "raise", val |-> e]
ReturnNone == [kind |-> "none", val |-> <<>>]

OrderETH == [coin |-> "ETH", is_buy |-> TRUE, sz |-> 1, limit_px |-> 1000, reduce_only |-> FALSE]
OrderBTC == [coin |-> "BTC", is_buy |-> FALSE, sz |-> 2, limit_px |-> 30, reduce_only |-> TRUE]
OrderUnknown == [coin |-> "DOGE", is_buy |-> TRUE, sz |-> 1, limit_px |-> 1, reduce_only |-> FALSE]
SomeBuilder == [b |-> BuilderAddr, f |-> 10]
\* (order_requests, builder) arguments of bulk_orders_tx, each with the value
\* get_timestamp_ms() returns during the call
BulkInputs == {<<<<>>, NoBuilder, 1700>>,
               <<<<OrderETH, OrderBTC>>, SomeBuilder, 1701>>,
               <<<<OrderETH, OrderUnknown>>, NoBuilder, 1701>>}
ExpiryValues == {NoneInt, 1}
WalletValues == {NoneAddr, Addr1, Addr2}
\* (account_address, vault_address, base_url == MAINNET_API_URL) at construction
Constructions == {<<NoneAddr, VaultAddr, TRUE>>, <<Addr1Upper, NoneAddr, FALSE>>}
\* address arguments of pending_unsigned_actions and clear_unsigned_actions
AddressArgs == {NoneAddr, Addr1, Addr2Lower}
Responses == {"ok", "err"}
Signatures == {[r |-> "0x1", s |-> "0x2", v |-> 27]}
DummyAction == [type |-> "dummy"]
TransferAction == [type |-> "usdClassTransfer"]

\* number of records held by the registry
RECURSIVE RecordCount(_)
RecordCount(d) == IF d = <<>> THEN 0 ELSE Len(Head(d).records) + RecordCount(Tail(d))

\* getattr(self.wallet, "address", None) or self.account_address
OwnerAddress == IF Truthy(wallet) THEN wallet ELSE account_address

\* a faulty variant: the owner address is used as the key as it is spelt
RegistryKeyAsSpelt(owner_address) == owner_address

\* key = owner_address.lower()
RegistryKey(owner_address) == Lower(owner_address)

\* a faulty variant: the record is built before the expiry of the session is consulted
PendingRecordNoExpiry(key, data, timestamp, order_action) ==
    [signer |-> key,
     typedData |-> data,
     nonce |-> timestamp,
     vaultAddress |-> vault_address,
     expiresAfter |-> NoneInt,
     action |-> JsonRoundTrip(order_action)]

\* the record built at exchange.py lines 176-183
PendingRecord(key, data, timestamp, order_action) ==
    [signer |-> key,
     typedData |-> data,
     nonce |-> timestamp,
     vaultAddress |-> vault_address,
     expiresAfter |-> expires_after,
     action |-> JsonRoundTrip(order_action)]

\* a faulty variant: the record is put in front of the signer's list
StoreRecordInFront(d, key, record) ==
    LET e == DictSetDefault(d, key)
    IN  [e EXCEPT ![DictIndex(e, key)].records = <<record>> \o @]

\* self._unsigned_actions.setdefault(key, []).append(record)
StoreRecord(d, key, record) == ListAppend(DictSetDefault(d, key), key, record)

\* the builder after builder["b"] = builder["b"].lower()
LoweredBuilder(builder) ==
    IF builder = NoBuilder THEN builder ELSE [builder EXCEPT !.b = Lower(@)]

OrderAction(order_requests, builder) ==
    order_wires_to_order_action(
        [i \in DOMAIN order_requests |->
            order_request_to_order_wire(order_requests[i], name_to_asset(order_requests[i].coin))],
        LoweredBuilder(builder))

\* the Exchange state as a call finds it
Snapshot ==
    [unsigned_actions |-> unsigned_actions, posted |-> posted, signed |-> signed,
     wallet |-> wallet, account_address |-> account_address,
     vault_address |-> vault_address, expires_after |-> expires_after,
     is_mainnet_url |-> is_mainnet_url]

\* the entries of the call history that belong to key
RecordsFor(h, key) ==
    LET own == SelectSeq(h, LAMBDA e : e.key = key)
    IN  [i \in DOMAIN own |-> own[i].record]

\* the payload mapping of exchange.py lines 447-453
UnsignedPayload(order_action, data, timestamp) ==
    [action |-> order_action,
     nonce |-> timestamp,
     typed_data |-> data,
     vault_address |-> vault_address,
     expires_after |-> expires_after]

\* what bulk_orders_tx hands back to its caller
BulkOrdersTxResult(order_action, data, timestamp) == data

\* wallet signing calls made by bulk_orders_tx
BulkOrdersTxSignCalls == 0

bulk_orders_tx(order_requests, builder, timestamp) ==
    LET order_action == OrderAction(order_requests, builder)
        data == get_l1_action_data(order_action, vault_address, timestamp,
                                   expires_after, is_mainnet_url)
        owner_address == OwnerAddress
        key == RegistryKey(owner_address)
        record == PendingRecord(key, data, timestamp, order_action)
    IN  /\ op' = [name |-> "bulk_orders_tx", order_requests |-> order_requests,
                  builder |-> builder, timestamp |-> timestamp]
        /\ before' = Snapshot
        /\ IF \E i \in DOMAIN order_requests : order_requests[i].coin \notin KnownCoins
           THEN /\ ret' = Raise("KeyError")
                /\ UNCHANGED <<unsigned_actions, signed, history>>
           ELSE /\ history' =
                      IF Truthy(owner_address)
                      THEN Append(history, [key |-> Lower(owner_address), record |-> record])
                      ELSE history
                /\ unsigned_actions' =
                      IF Truthy(owner_address)
                      THEN StoreRecord(unsigned_actions, key, record)
                      ELSE unsigned_actions
                /\ signed' = signed + BulkOrdersTxSignCalls
                /\ ret' = Return(BulkOrdersTxResult(order_action, data, timestamp))
        /\ UNCHANGED <<wallet, account_address, vault_address, expires_after,
                       is_mainnet_url, posted>>
        /\ UNCHANGED <<threadVars, toolVars, sessions, keccakVars>>

\* copy.copy(record)
ShallowCopy(record) == record

PendingOf(d, address) ==
    IF address = NoneAddr
    THEN [i \in DOMAIN DictAllValues(d) |-> ShallowCopy(DictAllValues(d)[i])]
    ELSE [i \in DOMAIN DictGet(d, Lower(address)) |-> ShallowCopy(DictGet(d, Lower(address))[i])]

\* the places of the stored dicts, in the order d.values() and the lists give them
RECURSIVE DictAllPlaces(_)
DictAllPlaces(d) ==
    IF d = <<>> THEN <<>>
    ELSE [i \in DOMAIN Head(d).records |-> [key |-> Head(d).key, i |-> i]]
         \o DictAllPlaces(Tail(d))

\* the dict stored at a place of the registry, as an object of the heap
StoredObject(d, place) ==
    [stored |-> TRUE, key |-> place.key, i |-> place.i,
     fields |-> DictGet(d, place.key)[place.i]]

\* a faulty variant: the stored dict itself is handed out
SameObject(obj) == obj

\* copy.copy(record): a dict of its own holding the top-level fields of record
CopiedObject(obj) == [obj EXCEPT !.stored = FALSE, !.fields = ShallowCopy(@)]

\* the list the comprehensions of lines 194 and 197 build: a list of its own,
\* one copied dict for each stored one
ReturnedList(d, address) ==
    LET places == IF address = NoneAddr
                  THEN DictAllPlaces(d)
                  ELSE [i \in DOMAIN DictGet(d, Lower(address)) |->
                            [key |-> Lower(address), i |-> i]]
    IN  [items |-> [p \in DOMAIN places |-> CopiedObject(StoredObject(d, places[p]))]]

\* pending_unsigned_actions(address); kept tells whether the caller keeps the
\* returned list for later use
PendingCall(address, kept) ==
    /\ op' = [name |-> "pending_unsigned_actions", address |-> address]
    /\ ret' = Return(PendingOf(unsigned_actions, address))
    /\ caller_run' = IF kept THEN ReturnedList(unsigned_actions, address) ELSE caller_run
    /\ before' = Snapshot
    /\ UNCHANGED history
    /\ UNCHANGED <<wallet, account_address, vault_address, expires_after,
                   is_mainnet_url, unsigned_actions, posted, signed>>
    /\ UNCHANGED callerFrame

pending_unsigned_actions(address) == PendingCall(address, FALSE)

\* a faulty variant: every signer's records are dropped whatever the address
ClearedRegistryAll(d, address) == <<>>

ClearedRegistry(d, address) ==
    IF address = NoneAddr THEN <<>> ELSE DictPop(d, Lower(address))

clear_unsigned_actions(address) ==
    /\ op' = [name |-> "clear_unsigned_actions", address |-> address]
    /\ unsigned_actions' = ClearedRegistry(unsigned_actions, address)
    /\ ret' = ReturnNone
    /\ before' = Snapshot
    /\ history' = IF address = NoneAddr THEN <<>>
                  ELSE SelectSeq(history, LAMBDA e : e.key # Lower(address))
    /\ UNCHANGED <<wallet, account_address, vault_address, expires_after,
                   is_mainnet_url, posted, signed>>
    /\ UNCHANGED <<threadVars, toolVars, sessions, keccakVars>>

set_expires_after(e) ==
    /\ op' = [name |-> "set_expires_after", expires_after |-> e]
    /\ expires_after' = e
    /\ ret' = ReturnNone
    /\ before' = Snapshot
    /\ UNCHANGED history
    /\ UNCHANGED <<wallet, account_address, vault_address, is_mainnet_url,
                   unsigned_actions, posted, signed>>
    /\ UNCHANGED <<threadVars, toolVars, sessions, keccakVars>>

\* the session's wallet is replaced (Exchange.wallet is a plain attribute)
SetWallet(w) ==
    /\ op' = [name |-> "set_wallet", wallet |-> w]
    /\ wallet' = w
    /\ ret' = ReturnNone
    /\ before' = Snapshot
    /\ UNCHANGED history
    /\ UNCHANGED <<account_address, vault_address, expires_after, is_mainnet_url,
                   unsigned_actions, posted, signed>>
    /\ UNCHANGED <<threadVars, toolVars, sessions, keccakVars>>

PostPath == "/exchange"

\* a faulty variant: the payload carries a nonce of its own instead of the caller's
PostPayloadOwnNonce(action, signature, nonce) ==
    [action |-> action,
     nonce |-> 1701,
     signature |-> signature,
     vaultAddress |-> IF action.type \notin {"usdClassTransfer", "sendAsset"}
                      THEN vault_address ELSE NoneAddr,
     expiresAfter |-> expires_after]

\* the payload _post_action builds
PostPayload(action, signature, nonce) ==
    [action |-> action,
     nonce |-> nonce,
     signature |-> signature,
     vaultAddress |-> IF action.type \notin {"usdClassTransfer", "sendAsset"}
                      THEN vault_address ELSE NoneAddr,
     expiresAfter |-> expires_after]

\* self.post(path, payload) as many times as _post_action calls it
PostCalls(action, signature, nonce) ==
    <<[path |-> PostPath, payload |-> PostPayload(action, signature, nonce)]>>

\* what _post_action returns, the transport having answered response
PostResult(response) == response

submit_signed_action(action, signature, nonce, response) ==
    /\ Len(posted) < MaxPosts
    /\ op' = [name |-> "submit_signed_action", action |-> action,
              signature |-> signature, nonce |-> nonce, response |-> response]
    /\ posted' = posted \o PostCalls(action, signature, nonce)
    /\ ret' = Return(PostResult(response))
    /\ before' = Snapshot
    /\ UNCHANGED history
    /\ UNCHANGED <<wallet, account_address, vault_address, expires_after,
                   is_mainnet_url, unsigned_actions, signed>>
    /\ UNCHANGED <<threadVars, toolVars, sessions, keccakVars>>

bulk_cancel(oid, timestamp, response) ==
    LET cancel_action == [type |-> "cancel", cancels |-> <<[a |-> name_to_asset("ETH"), o |-> oid]>>]
        signature == sign_l1_action(wallet, cancel_action, vault_address, timestamp,
                                    expires_after, is_mainnet_url)
    IN  /\ Len(posted) < MaxPosts
        /\ wallet # NoneAddr
        /\ op' = [name |-> "bulk_cancel", oid |-> oid, response |-> response]
        /\ signed' = signed + 1
        /\ posted' = posted \o PostCalls(cancel_action, signature, timestamp)
        /\ ret' = Return(PostResult(response))
        /\ before' = Snapshot
        /\ UNCHANGED history
        /\ UNCHANGED <<wallet, account_address, vault_address, expires_after,
                       is_mainnet_url, unsigned_actions>>
        /\ UNCHANGED <<threadVars, toolVars, sessions, keccakVars>>


-----------------------------------------------------------------------------
(* hyperliquid_local/phantom_bot.py *)

\* copy.deepcopy(action)
DeepCopy(x) == x

\* a faulty variant: the network flag is hashed together with the action
prepare_phantom_session_hashing_network(action, vault, nonce, expires, is_mainnet) ==
    LET action_copy == DeepCopy(action)
        hash_bytes == action_hash([action |-> action_copy, isMainnet |-> is_mainnet],
                                  vault, nonce, expires)
        phantom_agent == construct_phantom_agent(hash_bytes, is_mainnet)
        typed_payload == l1_payload(phantom_agent)
    IN  [action |-> action_copy,
         phantom_agent |-> phantom_agent,
         typed_payload |-> typed_payload,
         action_hash_bytes |-> hash_bytes,
         nonce |-> nonce,
         vault_address |-> vault,
         expires_after |-> expires,
         is_mainnet |-> is_mainnet]

prepare_phantom_session(action, vault, nonce, expires, is_mainnet) ==
    LET action_copy == DeepCopy(action)
        hash_bytes == action_hash(action_copy, vault, nonce, expires)
        phantom_agent == construct_phantom_agent(hash_bytes, is_mainnet)
        typed_payload == l1_payload(phantom_agent)
    IN  [action |-> action_copy,
         phantom_agent |-> phantom_agent,
         typed_payload |-> typed_payload,
         action_hash_bytes |-> hash_bytes,
         nonce |-> nonce,
         vault_address |-> vault,
         expires_after |-> expires,
         is_mainnet |-> is_mainnet]

\* (action, vault_address, nonce, expires_after) arguments
PhantomInputs ==
    {DummyAction, TransferAction, [type |-> "scheduleCancel"]}
        \X {NoneAddr, VaultAddr, Addr1}
        \X {0, 1700, 1701}
        \X {NoneInt, 1, 1701}

PreparePhantom(is_mainnet) ==
    LET i == sessions.input
        session == prepare_phantom_session(i[1], i[2], i[3], i[4], is_mainnet)
    IN  /\ IF is_mainnet
           THEN sessions.mainnet = <<>> /\ sessions' = [sessions EXCEPT !.mainnet = <<session>>]
           ELSE sessions.testnet = <<>> /\ sessions' = [sessions EXCEPT !.testnet = <<session>>]
        /\ UNCHANGED <<exchangeVars, threadVars, toolVars, keccakVars>>

PrepareMainnet == PreparePhantom(TRUE)
PrepareTestnet == PreparePhantom(FALSE)

-----------------------------------------------------------------------------
(* The Keccak-256 copies.  The 1600-bit state is represented by the blocks   *)
(* absorbed into it, each followed by one call of _keccak_f (the permutation *)
(* is taken to be injective, so two runs end in the same state exactly when  *)
(* they absorbed the same blocks); a digest is what is squeezed out of it.   *)

\* rate_bytes
Rate == 136
\* bytes of output
DigestLen == 32
\* longest input
MaxLen == 273

\* _pattern(length)
Pattern(length) == [i \in 1 .. length |-> (i - 1) % 256]

Zeros(n) == [i \in 1 .. n |-> 0]

\* b ^ 0x80 and b ^ 0x01 on a byte
Xor80(b) == IF b >= 128 THEN b - 128 ELSE b + 128
Xor01(b) == IF b % 2 = 1 THEN b - 1 ELSE b + 1

\* data[lo:hi] of Python, 0-based and half open
Slice(data, lo, hi) ==
    SubSeq(data, lo + 1, IF hi < Len(data) THEN hi ELSE Len(data))

\* the lanes XORed into the state from a chunk: bytes missing from it count as 0
AsBlock(chunk) ==
    IF Len(chunk) >= Rate THEN SubSeq(chunk, 1, Rate) ELSE chunk \o Zeros(Rate - Len(chunk))

NewRun == [pc |-> "absorb", offset |-> 0, absorbed |-> <<>>, perms |-> 0, digest |-> <<>>]

\* state ^= block; _keccak_f(state)
Absorb(run, block) ==
    [run EXCEPT !.absorbed = Append(@, block), !.perms = @ + 1]

\* calls of _keccak_f made by an output loop that can take lanesPerRound lanes
\* of 8 bytes from the state before it has to permute it again
RECURSIVE SqueezePerms(_, _)
SqueezePerms(have, lanesPerRound) ==
    IF have + 8 * lanesPerRound >= DigestLen
    THEN 0
    ELSE 1 + SqueezePerms(have + 8 * lanesPerRound, lanesPerRound)

Squeeze(run, extraPerms) ==
    [run EXCEPT !.pc = "done",
                !.perms = @ + extraPerms,
                !.digest = <<[absorbed |-> run.absorbed, squeezePerms |-> extraPerms]>>]

(* scripts/scan_hyperliquid_vaults.keccak256 *)

\* a faulty variant: the loop stops one block early when the input ends on a block boundary
ScanHasFullBlockStrict(offset, block_size) == offset + Rate < block_size

\* while offset + rate_bytes <= block_size
ScanHasFullBlock(offset, block_size) == offset + Rate <= block_size

\* remainder after the padding of lines 109-113
ScanRemainder(data, offset) ==
    LET r1 == Slice(data, offset, Len(data)) \o <<1>>
        r2 == IF Len(r1) < Rate THEN r1 \o Zeros(Rate - Len(r1)) ELSE r1
    IN  [r2 EXCEPT ![Len(r2)] = Xor80(@)]

ScanAbsorbFull ==
    /\ kscan.pc = "absorb"
    /\ ScanHasFullBlock(kscan.offset, Len(kdata))
    /\ kscan' = [Absorb(kscan, Slice(kdata, kscan.offset, kscan.offset + Rate))
                    EXCEPT !.offset = @ + Rate]
    /\ UNCHANGED <<kdata, ksolara, kref, exchangeVars, threadVars, toolVars, sessions>>

ScanAbsorbFinal ==
    /\ kscan.pc = "absorb"
    /\ ~ScanHasFullBlock(kscan.offset, Len(kdata))
    /\ kscan' = [Absorb(kscan, AsBlock(ScanRemainder(kdata, kscan.offset)))
                    EXCEPT !.pc = "squeeze"]
    /\ UNCHANGED <<kdata, ksolara, kref, exchangeVars, threadVars, toolVars, sessions>>

\* the output loop, lines 120-128: _keccak_f is called only when a pass over
\* the rate // 8 lanes has not produced 32 bytes
ScanSqueeze ==
    /\ kscan.pc = "squeeze"
    /\ kscan' = Squeeze(kscan, SqueezePerms(0, Rate \div 8))
    /\ UNCHANGED <<kdata, ksolara, kref, exchangeVars, threadVars, toolVars, sessions>>

(* find_solara_vaults.keccak *)

\* padded, lines 99-102
SolaraPadded(data_bytes) ==
    LET p1 == data_bytes \o <<1>>
        p2 == p1 \o Zeros((0 - Len(p1) - 1) % Rate)
    IN  p2 \o <<128>>

SolaraAbsorb ==
    /\ ksolara.pc = "absorb"
    /\ ksolara.offset < Len(SolaraPadded(kdata))
    /\ ksolara' = [Absorb(ksolara, AsBlock(Slice(SolaraPadded(kdata), ksolara.offset,
                                                 ksolara.offset + Rate)))
                      EXCEPT !.offset = @ + Rate]
    /\ UNCHANGED <<kdata, kscan, kref, exchangeVars, threadVars, toolVars, sessions>>

\* the output loop takes all rate // 8 lanes before it looks at the length
SolaraSqueeze ==
    /\ ksolara.pc = "absorb"
    /\ ksolara.offset >= Len(SolaraPadded(kdata))
    /\ ksolara' = Squeeze(ksolara, SqueezePerms(0, Rate \div 8))
    /\ UNCHANGED <<kdata, kscan, kref, exchangeVars, threadVars, toolVars, sessions>>

(* tests/vault_scanner_utils_test._keccak256_reference *)

\* block, lines 77-81
ReferenceFinalBlock(data, offset) ==
    LET remainder == Slice(data, offset, Len(data))
        b1 == remainder \o Zeros(Rate - Len(remainder))
        b2 == [b1 EXCEPT ![Len(remainder) + 1] = Xor01(@)]
    IN  [b2 EXCEPT ![Rate] = Xor80(@)]

ReferenceAbsorbFull ==
    /\ kref.pc = "absorb"
    /\ kref.offset + Rate <= Len(kdata)
    /\ kref' = [Absorb(kref, Slice(kdata, kref.offset, kref.offset + Rate))
                   EXCEPT !.offset = @ + Rate]
    /\ UNCHANGED <<kdata, kscan, ksolara, exchangeVars, threadVars, toolVars, sessions>>

ReferenceAbsorbFinal ==
    /\ kref.pc = "absorb"
    /\ ~(kref.offset + Rate <= Len(kdata))
    /\ kref' = [Absorb(kref, AsBlock(ReferenceFinalBlock(kdata, kref.offset)))
                   EXCEPT !.pc = "squeeze"]
    /\ UNCHANGED <<kdata, kscan, ksolara, exchangeVars, threadVars, toolVars, sessions>>

ReferenceSqueeze ==
    /\ kref.pc = "squeeze"
    /\ kref' = Squeeze(kref, SqueezePerms(0, Rate \div 8))
    /\ UNCHANGED <<kdata, kscan, ksolara, exchangeVars, threadVars, toolVars, sessions>>

IdleThreads ==
    /\ pc = <<>>
    /\ frame = <<>>
    /\ appended = <<>>
    /\ snapshots = <<>>

IdlePhantom == sessions = <<>>

IdleKeccak ==
    /\ kdata = <<>>
    /\ kscan = <<>>
    /\ ksolara = <<>>
    /\ kref = <<>>

IdleUtilities ==
    /\ payments_run = <<>>
    /\ scan_run = <<>>
    /\ report_run = <<>>
    /\ withdraw_run = <<>>
    /\ fetch_run = <<>>
    /\ registry_run = <<>>
    /\ builder_run = <<>>
    /\ search_run = <<>>
    /\ caller_run = <<>>

IdleTools ==
    /\ signature_run = <<>>
    /\ enforce_run = <<>>
    /\ github_run = <<>>
    /\ claim_files = <<>>
    /\ IdleUtilities

InitExchange(wallets) ==
    /\ wallet \in wallets
    /\ \E c \in Constructions :
          /\ account_address = c[1]
          /\ vault_address = c[2]
          /\ is_mainnet_url = c[3]
    /\ expires_after = NoneInt
    /\ unsigned_actions = <<>>
    /\ posted = <<>>
    /\ signed = 0
    /\ op = [name |-> "__init__"]
    /\ ret = ReturnNone
    /\ before = Snapshot
    /\ history = <<>>

(* The registry calls of one session, one after another. *)
Init ==
    /\ InitExchange(WalletValues)
    /\ IdleThreads
    /\ IdlePhantom
    /\ IdleKeccak
    /\ IdleTools

Next ==
    \/ \E i \in BulkInputs :
          /\ RecordCount(unsigned_actions) < MaxRecords
          /\ bulk_orders_tx(i[1], i[2], i[3])
    \/ \E a \in AddressArgs : pending_unsigned_actions(a)
    \/ \E a \in AddressArgs : clear_unsigned_actions(a)
    \/ \E w \in WalletValues : SetWallet(w)

Spec == Init /\ [][Next]_vars

(* The payloads of bulk_orders_tx, the session's settings changing between calls. *)
NextTx ==
    \/ \E i \in BulkInputs :
          /\ RecordCount(unsigned_actions) < MaxTxRecords
          /\ bulk_orders_tx(i[1], i[2], i[3])
    \/ \E e \in ExpiryValues : set_expires_after(e)
    \/ \E w \in WalletValues : SetWallet(w)
    \/ clear_unsigned_actions(NoneAddr)

SpecTx == Init /\ [][NextTx]_vars

(* The submissions of one session, one after another. *)
NextSubmit ==
    \/ \E a \in {DummyAction, TransferAction}, s \in Signatures, n \in {123, 1700},
         r \in Responses : submit_signed_action(a, s, n, r)
    \/ \E i \in BulkInputs, r \in Responses : bulk_cancel(7, i[3], r)
    \/ \E e \in ExpiryValues : set_expires_after(e)

SpecSubmit == Init /\ [][NextSubmit]_vars

-----------------------------------------------------------------------------
(* Threads sharing one Exchange.  Two threads call bulk_orders_tx and one   *)
(* calls pending_unsigned_actions; the interpreter may switch threads        *)
(* between any two operations on the shared dict and its lists, each of      *)
(* which is atomic (dict.setdefault, list.append, dict.get, a step of a      *)
(* dict or list iterator).  No lock is taken anywhere in exchange.py.        *)

Writers == {"w1", "w2"}
Reader == "r"

\* the arguments each writing thread passes, with the timestamp of its call
WriterInput(w) ==
    IF w = "w1" THEN <<<<>>, NoBuilder, 1700>> ELSE <<<<OrderETH>>, SomeBuilder, 1701>>

InFlight == Cardinality({w \in Writers : pc[w] # "idle"})

threadFrame == <<wallet, account_address, vault_address, expires_after, is_mainnet_url,
                 posted, signed, op, ret, before, history, sessions, keccakVars,
                 toolVars>>

\* bulk_orders_tx up to line 183: the record is built from the session's state
WriterStart(w) ==
    LET i == WriterInput(w)
        order_action == OrderAction(i[1], i[2])
        data == get_l1_action_data(order_action, vault_address, i[3], expires_after,
                                   is_mainnet_url)
        key == RegistryKey(OwnerAddress)
    IN  /\ pc[w] = "idle"
        /\ Truthy(OwnerAddress)
        /\ RecordCount(unsigned_actions) + InFlight < MaxThreadRecords
        /\ frame' = [frame EXCEPT ![w] =
                        [key |-> key, record |-> PendingRecord(key, data, i[3], order_action)]]
        /\ pc' = [pc EXCEPT ![w] = "setdefault"]
        /\ UNCHANGED <<unsigned_actions, appended, snapshots, threadFrame>>

\* line 184: stored_records = self._unsigned_actions.setdefault(key, [])
WriterSetDefault(w) ==
    /\ pc[w] = "setdefault"
    /\ unsigned_actions' = DictSetDefault(unsigned_actions, frame[w].key)
    /\ pc' = [pc EXCEPT ![w] = "append"]
    /\ UNCHANGED <<frame, appended, snapshots, threadFrame>>

\* line 185: stored_records.append(record)
WriterAppend(w) ==
    /\ pc[w] = "append"
    /\ unsigned_actions' = ListAppend(unsigned_actions, frame[w].key, frame[w].record)
    /\ appended' = Append(appended, [key |-> frame[w].key, record |-> frame[w].record])
    /\ pc' = [pc EXCEPT ![w] = "idle"]
    /\ frame' = [frame EXCEPT ![w] = <<>>]
    /\ UNCHANGED <<snapshots, threadFrame>>

\* the session goes over to another wallet
SwitchWallet ==
    /\ wallet = Addr1
    /\ wallet' = Addr2
    /\ UNCHANGED <<account_address, vault_address, expires_after, is_mainnet_url,
                   unsigned_actions, posted, signed, op, ret, before, history,
                   threadVars, toolVars, sessions, keccakVars>>

\* the list a reader iterates: an entry of the registry, or the fresh [] that
\* dict.get hands out for a missing key
ListOf(ref) == IF ref.bound THEN DictGet(unsigned_actions, ref.key) ELSE <<>>

Finish(address, result) ==
    /\ snapshots' = <<[address |-> address, result |-> result]>>
    /\ pc' = [pc EXCEPT ![Reader] = "idle"]
    /\ frame' = [frame EXCEPT ![Reader] = <<>>]

\* lines 193-197 up to the creation of the iterator: iter(d.values()) notes the
\* size of the dict; d.get(key, []) yields the signer's list
ReaderStart(address) ==
    /\ pc[Reader] = "idle"
    /\ IF address = NoneAddr
       THEN /\ frame' = [frame EXCEPT ![Reader] =
                            [address |-> address, used |-> Len(unsigned_actions), pos |-> 0,
                             list |-> [bound |-> FALSE, key |-> EmptyStr], idx |-> 0,
                             out |-> <<>>]]
            /\ pc' = [pc EXCEPT ![Reader] = "next_list"]
       ELSE /\ frame' = [frame EXCEPT ![Reader] =
                            [address |-> address, used |-> 0, pos |-> 0,
                             list |-> [bound |-> Lower(address) \in DictKeys(unsigned_actions),
                                       key |-> Lower(address)],
                             idx |-> 0, out |-> <<>>]]
            /\ pc' = [pc EXCEPT ![Reader] = "next_record"]
    /\ UNCHANGED <<unsigned_actions, appended, snapshots, threadFrame>>

\* a step of the dict iterator: it raises when the dict has changed size
ReaderNextList ==
    LET f == frame[Reader]
    IN  /\ pc[Reader] = "next_list"
        /\ IF f.used # Len(unsigned_actions)
           THEN Finish(f.address, Raise("RuntimeError"))
           ELSE IF f.pos < Len(unsigned_actions)
           THEN /\ frame' = [frame EXCEPT ![Reader] =
                                [f EXCEPT !.pos = @ + 1, !.idx = 0,
                                          !.list = [bound |-> TRUE,
                                                    key |-> unsigned_actions[f.pos + 1].key]]]
                /\ pc' = [pc EXCEPT ![Reader] = "next_record"]
                /\ UNCHANGED snapshots
           ELSE Finish(f.address, Return(f.out))
        /\ UNCHANGED <<unsigned_actions, appended, threadFrame>>

\* a step of the list iterator: it goes by index and sees what was appended
ReaderNextRecord ==
    LET f == frame[Reader]
    IN  /\ pc[Reader] = "next_record"
        /\ IF f.idx < Len(ListOf(f.list))
           THEN /\ frame' = [frame EXCEPT ![Reader] =
                                [f EXCEPT !.idx = @ + 1,
                                          !.out = Append(@, ShallowCopy(ListOf(f.list)[f.idx + 1]))]]
                /\ UNCHANGED <<pc, snapshots>>
           ELSE IF f.address = NoneAddr
           THEN /\ pc' = [pc EXCEPT ![Reader] = "next_list"]
                /\ UNCHANGED <<frame, snapshots>>
           ELSE Finish(f.address, Return(f.out))
        /\ UNCHANGED <<unsigned_actions, appended, threadFrame>>

InitThreads ==
    /\ InitExchange({Addr1})
    /\ pc = [t \in Writers \cup {Reader} |-> "idle"]
    /\ frame = [t \in Writers \cup {Reader} |-> <<>>]
    /\ appended = <<>>
    /\ snapshots = <<>>
    /\ IdlePhantom
    /\ IdleKeccak
    /\ IdleTools

NextThreads ==
    \/ \E w \in Writers : WriterStart(w)
    \/ \E w \in Writers : WriterSetDefault(w)
    \/ \E w \in Writers : WriterAppend(w)
    \/ SwitchWallet
    \/ \E a \in {NoneAddr, Addr1} : ReaderStart(a)
    \/ ReaderNextList
    \/ ReaderNextRecord

SpecThreads == InitThreads /\ [][NextThreads]_vars

(* Sessions prepared for both networks from one input. *)
InitPhantom ==
    /\ InitExchange({NoneAddr})
    /\ account_address = NoneAddr
    /\ IdleThreads
    /\ IdleKeccak
    /\ IdleTools
    /\ \E i \in PhantomInputs : sessions = [input |-> i, mainnet |-> <<>>, testnet |-> <<>>]

NextPhantom == PrepareMainnet \/ PrepareTestnet

SpecPhantom == InitPhantom /\ [][NextPhantom]_vars

(* The three Keccak-256 copies run on one input. *)
InitKeccak ==
    /\ InitExchange({NoneAddr})
    /\ account_address = NoneAddr
    /\ IdleThreads
    /\ IdlePhantom
    /\ IdleTools
    /\ \E length \in 0 .. MaxLen : kdata = Pattern(length)
    /\ kscan = NewRun
    /\ ksolara = NewRun
    /\ kref = NewRun

NextKeccak ==
    \/ ScanAbsorbFull
    \/ ScanAbsorbFinal
    \/ ScanSqueeze
    \/ SolaraAbsorb
    \/ SolaraSqueeze
    \/ ReferenceAbsorbFull
    \/ ReferenceAbsorbFinal
    \/ ReferenceSqueeze

SpecKeccak == InitKeccak /\ [][NextKeccak]_vars

-----------------------------------------------------------------------------
(* examples/example_utils.py: _WalletAdapter.sign_message, which turns what *)
(* the wrapped account's sign_message returns into a dict.  A raw value is  *)
(* [type, items, attrs, data]: its Python type, the items of a mapping, the *)
(* attributes of an object (to_dict holds what the method returns) and the  *)
(* bytes of a blob.  A big integer is the sequence of its base-256 digits,  *)
(* most significant first.                                                  *)

IdleExchange ==
    /\ InitExchange({NoneAddr})
    /\ account_address = NoneAddr

NoItems == [k \in {} |-> 0]

SigFields == {"r", "s", "v"}
FieldValue(k) == IF k = "r" THEN <<17>> ELSE IF k = "s" THEN <<34, 1>> ELSE <<27>>
\* the dict holding the given fields
FieldsDict(ks) == [k \in ks |-> FieldValue(k)]

BlobLengths == {0, 1, 64, 65, 66, 130}
BlobSeeds == {0, 27, 200}
Blob(length, seed) == [i \in 1 .. length |-> IF i < 3 THEN 0 ELSE (seed + i) % 256]

RawDict(ks) == [type |-> "dict", items |-> FieldsDict(ks), attrs |-> NoItems, data |-> <<>>]
RawMapping(ks) == [type |-> "mappingproxy", items |-> FieldsDict(ks), attrs |-> NoItems, data |-> <<>>]
RawObject(ks) == [type |-> "object", items |-> NoItems, attrs |-> FieldsDict(ks), data |-> <<>>]
RawObjectToDict(ks, out) ==
    [type |-> "object", items |-> NoItems,
     attrs |-> [k \in ks \cup {"to_dict"} |-> IF k = "to_dict" THEN FieldsDict(out) ELSE FieldValue(k)],
     data |-> <<>>]
RawBlob(type, length, seed) ==
    [type |-> type, items |-> NoItems, attrs |-> NoItems, data |-> Blob(length, seed)]
RawStr == [type |-> "str", items |-> NoItems, attrs |-> NoItems, data |-> <<>>]

\* what self._account.sign_message may hand back
RawSignatures ==
    {RawDict(ks) : ks \in SUBSET SigFields}
        \cup {RawMapping(ks) : ks \in {{}, SigFields}}
        \cup {RawObject(ks) : ks \in SUBSET SigFields}
        \cup {RawObjectToDict(x[1], x[2]) : x \in (SUBSET SigFields) \X (SUBSET SigFields)}
        \cup {RawBlob(x[1], x[2], x[3]) : x \in {"bytes", "bytearray"} \X BlobLengths \X BlobSeeds}
        \cup {RawStr}

HasAttr(signed_raw, attr) == attr \in DOMAIN signed_raw.attrs

\* int.from_bytes(b, "big"): the digits without the leading zeros
RECURSIVE IntFromBytesBig(_)
IntFromBytesBig(b) ==
    IF b = <<>> THEN <<>>
    ELSE IF Head(b) = 0 THEN IntFromBytesBig(Tail(b)) ELSE b

BytesSlice(b, lo, hi) == [i \in 1 .. (hi - lo) |-> b[lo + i]]

\* the value sign_message returns or the exception it raises, for what the account signed
NormalisedSignature(signed_raw) ==
    IF signed_raw.type = "dict" THEN Return(signed_raw.items)
    ELSE IF HasAttr(signed_raw, "to_dict") THEN Return(signed_raw.attrs["to_dict"])
    ELSE IF \A attr \in SigFields : HasAttr(signed_raw, attr)
    THEN Return([k \in SigFields |-> signed_raw.attrs[k]])
    ELSE IF signed_raw.type \in {"bytes", "bytearray"}
    THEN IF Len(signed_raw.data) # 65
         THEN Raise("ValueError")
         ELSE Return([k \in SigFields |->
                        IF k = "r" THEN IntFromBytesBig(BytesSlice(signed_raw.data, 0, 32))
                        ELSE IF k = "s" THEN IntFromBytesBig(BytesSlice(signed_raw.data, 32, 64))
                        ELSE <<signed_raw.data[65]>>])
    ELSE Raise("TypeError")

sign_message ==
    /\ signature_run # <<>>
    /\ signature_run.result = <<>>
    /\ signature_run.fn = "sign_message"
    /\ signature_run' = [signature_run EXCEPT !.result = <<NormalisedSignature(signature_run.raw)>>]
    /\ UNCHANGED <<exchangeVars, threadVars, sessions, keccakVars, enforce_run, github_run, claim_files, utilityVars>>

InitSign ==
    /\ IdleExchange
    /\ IdleThreads
    /\ IdlePhantom
    /\ IdleKeccak
    /\ \E raw \in RawSignatures : signature_run = [fn |-> "sign_message", raw |-> raw, result |-> <<>>]
    /\ enforce_run = <<>>
    /\ github_run = <<>>
    /\ claim_files = <<>>
    /\ IdleUtilities

NextSign == sign_message

SpecSign == InitSign /\ [][NextSign]_vars

-----------------------------------------------------------------------------
(* codex_enforce.py: _normalise_signature and recover_signer.  The          *)
(* signature is a str (a sequence of characters); eth_account (an external  *)
(* library) is a collaborator whose answers are drawn from small sets.      *)

\* the length _normalise_signature asks for
SigHexLen == 130
\* how far the body of a signature text strays from that length
MaxDelta == 2

Whitespace == {" ", "\n", "\t"}
LowerHex == <<"0", "1", "2", "3", "4", "5", "6", "7", "8", "9", "a", "b", "c", "d", "e", "f">>
UpperHex == <<"0", "1", "2", "3", "4", "5", "6", "7", "8", "9", "A", "B", "C", "D", "E", "F">>
IsHex(c) == \E i \in 1 .. 16 : LowerHex[i] = c \/ UpperHex[i] = c
HexVal(c) == (CHOOSE i \in 1 .. 16 : LowerHex[i] = c \/ UpperHex[i] = c) - 1

\* str.strip()
RECURSIVE LStrip(_)
LStrip(s) == IF s # <<>> /\ Head(s) \in Whitespace THEN LStrip(Tail(s)) ELSE s
RECURSIVE RStrip(_)
RStrip(s) ==
    IF s # <<>> /\ s[Len(s)] \in Whitespace THEN RStrip(SubSeq(s, 1, Len(s) - 1)) ELSE s
Strip(s) == RStrip(LStrip(s))

StartsWith(s, prefix) == Len(s) >= Len(prefix) /\ SubSeq(s, 1, Len(prefix)) = prefix

\* bytes.fromhex: whitespace between the bytes is skipped, each byte is two
\* adjacent hex digits; [ok, bytes]
HexDigitsOf(s) == SelectSeq(s, LAMBDA c : c \notin Whitespace)
DigitsBefore(s, i) == Cardinality({j \in 1 .. (i - 1) : s[j] \notin Whitespace})
FromHex(s) ==
    LET digits == HexDigitsOf(s)
        ok == /\ \A i \in 1 .. Len(digits) : IsHex(digits[i])
              /\ Len(digits) % 2 = 0
              /\ \A i \in 1 .. Len(s) :
                    (s[i] \notin Whitespace /\ DigitsBefore(s, i) % 2 = 0) =>
                        (i < Len(s) /\ s[i + 1] \notin Whitespace)
    IN  [ok |-> ok,
         bytes |-> IF ok
                   THEN [k \in 1 .. (Len(digits) \div 2) |->
                            16 * HexVal(digits[2 * k - 1]) + HexVal(digits[2 * k])]
                   ELSE <<>>]

SignaturePrefixStripped(signature) ==
    LET s == Strip(signature)
    IN  IF StartsWith(s, <<"0", "x">>) \/ StartsWith(s, <<"0", "X">>)
        THEN SubSeq(s, 3, Len(s)) ELSE s

_normalise_signature(signature) ==
    LET hex == SignaturePrefixStripped(signature)
    IN  IF Len(hex) # SigHexLen THEN Raise("ValueError")
        ELSE IF FromHex(hex).ok THEN Return(FromHex(hex).bytes) ELSE Raise("ValueError")

\* signature texts: white space, a prefix, a body of a kind and a length
BodyKinds == {"hex", "nonhex", "spaced"}
SignatureBody(kind, n) ==
    [i \in 1 .. n |->
        IF kind = "nonhex" /\ i = 5 THEN "g"
        ELSE IF kind = "spaced" /\ i \in {3, 4} THEN " "
        ELSE IF i % 2 = 1 THEN "a" ELSE "B"]
SignatureTexts ==
    {x[1] \o x[2] \o SignatureBody(x[3], SigHexLen + x[4]) \o x[5] :
        x \in {<<>>, <<" ">>} \X {<<>>, <<"0", "x">>, <<"0", "X">>} \X BodyKinds
              \X ((0 - MaxDelta) .. MaxDelta) \X {<<>>, <<"\n">>}}

\* what Account.recover_message answers: an address, or an exception of its own
RecoveredAddresses == {Addr1, Addr2}
RecoverOutcomes == {Return(a) : a \in RecoveredAddresses} \cup {Raise("BadSignature")}

\* recover_signer(payload, signature); `installed` says whether eth_account
\* can be imported, `outcome` is the library's answer if it is asked
recover_signer(installed, outcome) ==
    LET run == signature_run
        normalised == _normalise_signature(run.raw)
    IN  /\ run # <<>>
        /\ run.fn = "recover_signer"
        /\ run.result = <<>>
        /\ signature_run' =
              IF ~installed THEN [run EXCEPT !.result = <<Raise("RuntimeError")>>]
              ELSE IF normalised.kind = "raise" THEN [run EXCEPT !.result = <<normalised>>]
              ELSE [run EXCEPT !.result = <<outcome>>,
                               !.recover_calls = Append(@, normalised.val)]
        /\ UNCHANGED <<exchangeVars, threadVars, sessions, keccakVars, enforce_run, github_run, claim_files, utilityVars>>

InitRecover ==
    /\ IdleExchange
    /\ IdleThreads
    /\ IdlePhantom
    /\ IdleKeccak
    /\ \E text \in SignatureTexts :
          signature_run = [fn |-> "recover_signer", raw |-> text, result |-> <<>>,
                           recover_calls |-> <<>>]
    /\ enforce_run = <<>>
    /\ github_run = <<>>
    /\ claim_files = <<>>
    /\ IdleUtilities

NextRecover == \E installed \in BOOLEAN, outcome \in RecoverOutcomes : recover_signer(installed, outcome)

SpecRecover == InitRecover /\ [][NextRecover]_vars

-----------------------------------------------------------------------------
(* Claim documents (codex_enforce.py, codex_registry_add.py,                *)
(* claims/hyperliquid_royalty_claim.py).  A Python value is [t, v, items]:  *)
(* its type, a number standing for its content (a float counts hundredths)  *)
(* and, for a dict, its items [key, val] in insertion order.  A JSON text   *)
(* is [j, v, items] likewise.  A digest is represented by the text that was *)
(* hashed (SHA-256 is taken to be collision free).                          *)

PyInt(n) == [t |-> "int", v |-> n, items |-> <<>>]
PyFloat(hundredths) == [t |-> "float", v |-> hundredths, items |-> <<>>]
PyStr(n) == [t |-> "str", v |-> n, items |-> <<>>]
PyTuple(n) == [t |-> "tuple", v |-> n, items |-> <<>>]
PyList(n) == [t |-> "list", v |-> n, items |-> <<>>]
PyDict(items) == [t |-> "dict", v |-> 0, items |-> items]
Item(k, val) == [key |-> k, val |-> val]

\* every key of the model, in the order sorted() puts them
SortedKeys == <<"components_used", "flow_estimates", "hlp_vaults", "linked_wallet",
                "royalty_rates", "total_owed_usd", "usdh_pipeline">>
KeyRank(k) == CHOOSE i \in 1 .. Len(SortedKeys) : SortedKeys[i] = k

ItemKeys(items) == {items[i].key : i \in 1 .. Len(items)}
HasKey(d, k) == k \in ItemKeys(d.items)
\* d[k], d.get(k)
GetItem(d, k) == d.items[CHOOSE i \in 1 .. Len(d.items) : d.items[i].key = k].val
\* d[k] = val
SetItem(d, k, val) ==
    IF HasKey(d, k)
    THEN [d EXCEPT !.items = [i \in 1 .. Len(d.items) |->
                                IF d.items[i].key = k THEN Item(k, val) ELSE d.items[i]]]
    ELSE [d EXCEPT !.items = Append(d.items, Item(k, val))]

\* the items ordered by key, as sort_keys=True writes them
SortItems(items) ==
    [i \in 1 .. Len(items) |->
        items[CHOOSE j \in 1 .. Len(items) :
                Cardinality({m \in 1 .. Len(items) :
                                KeyRank(items[m].key) < KeyRank(items[j].key)}) = i - 1]]

\* json.dumps(value, sort_keys=sort_keys): tuples and lists are both arrays
RECURSIVE JsonDumps(_, _)
JsonDumps(value, sort_keys) ==
    IF value.t = "dict"
    THEN LET ordered == IF sort_keys THEN SortItems(value.items) ELSE value.items
         IN  [j |-> "object", v |-> 0,
              items |-> [i \in 1 .. Len(ordered) |->
                            Item(ordered[i].key, JsonDumps(ordered[i].val, sort_keys))]]
    ELSE [j |-> IF value.t \in {"tuple", "list"} THEN "array"
                ELSE IF value.t = "str" THEN "string" ELSE value.t,
          v |-> value.v, items |-> <<>>]

\* json.load(text): arrays come back as lists, objects as dicts in text order
RECURSIVE JsonLoads(_)
JsonLoads(text) ==
    IF text.j = "object"
    THEN PyDict([i \in 1 .. Len(text.items) |->
                    Item(text.items[i].key, JsonLoads(text.items[i].val))])
    ELSE [t |-> IF text.j = "array" THEN "list"
                ELSE IF text.j = "string" THEN "str" ELSE text.j,
          v |-> text.v, items |-> <<>>]

\* sha256(text).hexdigest(), a str; EmptyText is ""
HexDigest(text) == [hex |-> text, upper |-> FALSE]
EmptyText == [hex |-> [j |-> "empty", v |-> 0, items |-> <<>>], upper |-> FALSE]
DigestUpper(digest) == [digest EXCEPT !.upper = digest.hex.j # "empty"]
DigestLower(digest) == [digest EXCEPT !.upper = FALSE]

_compute_claim_hash(payload) == HexDigest(JsonDumps(payload, TRUE))

\* round(total, 2) of a sum of int * float products, in hundredths
RoyaltyTotal(flows, rates) ==
    LET due(i) == IF HasKey(rates, flows.items[i].key)
                  THEN flows.items[i].val.v * GetItem(rates, flows.items[i].key).v
                  ELSE 0
        sum[i \in 0 .. Len(flows.items)] == IF i = 0 THEN 0 ELSE sum[i - 1] + due(i)
    IN  sum[Len(flows.items)]

IsMapping(d, k) == HasKey(d, k) /\ GetItem(d, k).t = "dict"

\* codex_enforce._ensure_total_owed: the payload it leaves behind
_ensure_total_owed(payload) ==
    IF HasKey(payload, "total_owed_usd") THEN payload
    ELSE IF ~IsMapping(payload, "flow_estimates") \/ ~IsMapping(payload, "royalty_rates")
    THEN payload
    ELSE SetItem(payload, "total_owed_usd",
                 PyFloat(RoyaltyTotal(GetItem(payload, "flow_estimates"),
                                      GetItem(payload, "royalty_rates"))))

\* codex_registry_add._ensure_total_owed: the payload it leaves behind, or the
\* exception
RegistryEnsureTotalOwed(payload) ==
    IF HasKey(payload, "total_owed_usd") THEN Return(payload)
    ELSE IF ~IsMapping(payload, "flow_estimates") \/ ~IsMapping(payload, "royalty_rates")
    THEN Raise("ValueError")
    ELSE IF \E k \in ItemKeys(GetItem(payload, "flow_estimates").items) :
                ~HasKey(GetItem(payload, "royalty_rates"), k)
    THEN Raise("ValueError")
    ELSE Return(_ensure_total_owed(payload))

\* a hash file: None (not given), missing, or a text with white space around
NoHashFile == [given |-> FALSE, exists |-> FALSE, text |-> EmptyText, padded |-> FALSE]
MissingHashFile == [given |-> TRUE, exists |-> FALSE, text |-> EmptyText, padded |-> FALSE]
HashFile(text, padded) == [given |-> TRUE, exists |-> TRUE, text |-> text, padded |-> padded]
\* hash_file.read_text().strip()
ReadStripped(hash_file) == hash_file.text

\* a faulty variant: the recorded hash is returned without being compared
ValidateHashTrusting(payload, hash_file) ==
    LET computed == _compute_claim_hash(payload)
        recorded == ReadStripped(hash_file)
    IN  IF ~hash_file.given THEN Return(computed)
        ELSE IF ~hash_file.exists THEN Raise("FileNotFoundError")
        ELSE Return(IF recorded # EmptyText THEN recorded ELSE computed)

validate_hash(payload, hash_file) ==
    LET computed == _compute_claim_hash(payload)
        recorded == ReadStripped(hash_file)
    IN  IF ~hash_file.given THEN Return(computed)
        ELSE IF ~hash_file.exists THEN Raise("FileNotFoundError")
        ELSE IF recorded # EmptyText /\ recorded # computed THEN Raise("ValueError")
        ELSE Return(IF recorded # EmptyText THEN recorded ELSE computed)

\* a faulty variant: the addresses are compared as they are spelt
VerifyResultAsSpelt(recovered, expected_signer) ==
    IF expected_signer = NoneAddr THEN <<TRUE, recovered>>
    ELSE <<recovered = expected_signer, recovered>>

\* verify_signature once recover_signer has returned `recovered`
VerifyResult(recovered, expected_signer) ==
    IF expected_signer = NoneAddr THEN <<TRUE, recovered>>
    ELSE <<Lower(recovered) = Lower(expected_signer), recovered>>

-----------------------------------------------------------------------------
(* The verification of a claim file: codex_enforce.main,                    *)
(* scripts/enforce_withrawal.main (through enforce_claim) and               *)
(* codex_registry_add.create_registry_entry, step by step.                  *)

PyNone == [t |-> "NoneType", v |-> 0, items |-> <<>>]

FlowsOf(ks) == PyDict([i \in 1 .. Len(ks) |-> Item(ks[i], PyInt(50 * i))])
RatesOf(ks) == PyDict([i \in 1 .. Len(ks) |-> Item(ks[i], PyFloat(i + 1))])
BothFlows == <<"usdh_pipeline", "hlp_vaults">>
DocNoTotal ==
    PyDict(<<Item("linked_wallet", PyStr(1)), Item("flow_estimates", FlowsOf(BothFlows)),
             Item("royalty_rates", RatesOf(BothFlows))>>)
DocFull == SetItem(DocNoTotal, "total_owed_usd", PyFloat(400))
DocBare == PyDict(<<Item("linked_wallet", PyStr(1))>>)
DocPartialRates ==
    PyDict(<<Item("royalty_rates", RatesOf(<<"usdh_pipeline">>)),
             Item("flow_estimates", FlowsOf(BothFlows))>>)
\* the documents a claim file may hold
ClaimDocs == {DocNoTotal, DocFull, DocBare, DocPartialRates}

GoodSignature == <<"0", "x">> \o SignatureBody("hex", SigHexLen)
ShortSignature == <<"0", "x">> \o SignatureBody("hex", SigHexLen - 2)
ExpectedSigners == {NoneAddr, EmptyStr, Addr1, Addr1Upper, Addr2}
Entries == {"codex_enforce.main", "enforce_withrawal.main", "create_registry_entry"}

HashFilesFor(doc) ==
    {NoHashFile, MissingHashFile, HashFile(EmptyText, TRUE),
     HashFile(DigestUpper(_compute_claim_hash(doc)), FALSE)}
        \cup {HashFile(_compute_claim_hash(d), TRUE) : d \in ClaimDocs}
ClaimHashesFor(doc) ==
    {EmptyText, _compute_claim_hash(doc),
     DigestUpper(_compute_claim_hash(_ensure_total_owed(doc)))}

NewRunOf(entry, doc, hash_file, signature, expected_signer, claim_hash) ==
    [entry |-> entry, claim |-> JsonDumps(doc, FALSE), hash_file |-> hash_file,
     signature |-> signature, expected_signer |-> expected_signer, claim_hash |-> claim_hash,
     pc |-> "load", payload |-> PyNone, loaded |-> PyNone, hashed |-> PyNone,
     verified |-> PyNone, hash_value |-> EmptyText, recovered |-> NoneAddr,
     verdict |-> <<>>, exit |-> NoneInt, raised |-> "", failed_at |-> ""]

enforceFrame == <<exchangeVars, threadVars, sessions, keccakVars, signature_run, github_run, claim_files, utilityVars>>

\* the run ends: an exception main catches gives exit status 1, another one
\* leaves main
Fail(run, exception, caught) ==
    IF exception \in caught
    THEN [run EXCEPT !.pc = "done", !.failed_at = run.pc, !.exit = 1]
    ELSE [run EXCEPT !.pc = "done", !.failed_at = run.pc, !.raised = exception]

\* the exceptions the entry point turns into exit status 1 at `where`
Caught(entry, where) ==
    IF entry = "enforce_withrawal.main" THEN {"RuntimeError", "ValueError"}
    ELSE IF entry = "codex_enforce.main" /\ where = "verify" THEN {"RuntimeError"}
    ELSE {}

\* a faulty variant: the total is filled in after the hash has been validated
StepAfterHashFirst(entry, step) ==
    CASE step = "load" -> "hash"
      [] step = "hash" -> "ensure"
      [] step = "ensure" -> IF entry = "create_registry_entry" THEN "done"
                            ELSE IF entry = "enforce_withrawal.main" THEN "claim_hash"
                            ELSE "verify"
      [] step = "claim_hash" -> "verify"
      [] step = "verify" -> "report"
      [] OTHER -> "done"

\* the order of the statements of main, enforce_claim and create_registry_entry
StepAfter(entry, step) ==
    CASE step = "load" -> "ensure"
      [] step = "ensure" -> "hash"
      [] step = "hash" -> IF entry = "create_registry_entry" THEN "done"
                          ELSE IF entry = "enforce_withrawal.main" THEN "claim_hash"
                          ELSE "verify"
      [] step = "claim_hash" -> "verify"
      [] step = "verify" -> "report"
      [] OTHER -> "done"

\* payload = _load_claim(path)
LoadClaim ==
    /\ enforce_run # <<>>
    /\ enforce_run.pc = "load"
    /\ enforce_run' = [enforce_run EXCEPT !.payload = JsonLoads(enforce_run.claim),
                                          !.loaded = JsonLoads(enforce_run.claim),
                                          !.pc = StepAfter(enforce_run.entry, "load")]
    /\ UNCHANGED enforceFrame

\* _ensure_total_owed(payload)
EnsureTotalOwed ==
    LET run == enforce_run
        ensured == RegistryEnsureTotalOwed(run.payload)
    IN  /\ run # <<>>
        /\ run.pc = "ensure"
        /\ enforce_run' =
              IF run.entry = "create_registry_entry"
              THEN IF ensured.kind = "raise" THEN Fail(run, ensured.val, {})
                   ELSE [run EXCEPT !.payload = ensured.val,
                                    !.pc = StepAfter(run.entry, "ensure")]
              ELSE [run EXCEPT !.payload = _ensure_total_owed(run.payload),
                               !.pc = StepAfter(run.entry, "ensure")]
        /\ UNCHANGED enforceFrame

\* hash_value = validate_hash(payload, hash_file); create_registry_entry keeps
\* the hash it computed and returns its entry
ValidateHash ==
    LET run == enforce_run
        checked == validate_hash(run.payload, run.hash_file)
    IN  /\ run # <<>>
        /\ run.pc = "hash"
        /\ enforce_run' =
              IF checked.kind = "raise"
              THEN [Fail(run, checked.val, Caught(run.entry, "hash")) EXCEPT !.hashed = run.payload]
              ELSE IF run.entry = "create_registry_entry"
              THEN [run EXCEPT !.hashed = run.payload,
                               !.hash_value = _compute_claim_hash(run.payload),
                               !.pc = StepAfter(run.entry, "hash")]
              ELSE [run EXCEPT !.hashed = run.payload, !.hash_value = checked.val,
                               !.pc = StepAfter(run.entry, "hash")]
        /\ UNCHANGED enforceFrame

\* enforce_claim: if claim_hash and hash_value.lower() != claim_hash.lower(): raise
CheckClaimHash ==
    LET run == enforce_run
    IN  /\ run # <<>>
        /\ run.pc = "claim_hash"
        /\ enforce_run' =
              IF run.claim_hash # EmptyText
                    /\ DigestLower(run.hash_value) # DigestLower(run.claim_hash)
              THEN Fail(run, "ValueError", Caught(run.entry, "claim_hash"))
              ELSE [run EXCEPT !.pc = StepAfter(run.entry, "claim_hash")]
        /\ UNCHANGED enforceFrame

\* is_valid, recovered = verify_signature(payload, signature, expected_signer)
VerifySignature(installed, outcome) ==
    LET run == enforce_run
        normalised == _normalise_signature(run.signature)
        failure == IF ~installed THEN "RuntimeError"
                   ELSE IF normalised.kind = "raise" THEN normalised.val
                   ELSE IF outcome.kind = "raise" THEN outcome.val
                   ELSE ""
    IN  /\ run # <<>>
        /\ run.pc = "verify"
        /\ enforce_run' =
              IF failure # ""
              THEN [Fail(run, failure, Caught(run.entry, "verify")) EXCEPT !.verified = run.payload]
              ELSE [run EXCEPT !.verified = run.payload, !.recovered = outcome.val,
                               !.verdict = VerifyResult(outcome.val, run.expected_signer),
                               !.pc = StepAfter(run.entry, "verify")]
        /\ UNCHANGED enforceFrame

\* a faulty variant: a mismatch is printed and the run still exits with 0
ExitStatusLenient(expected_signer, is_valid) == 0

\* the end of main: if args.expected_signer: ... return 1 on a mismatch
ExitStatus(expected_signer, is_valid) ==
    IF Truthy(expected_signer) THEN (IF is_valid THEN 0 ELSE 1) ELSE 0

Report ==
    LET run == enforce_run
    IN  /\ run # <<>>
        /\ run.pc = "report"
        /\ enforce_run' = [run EXCEPT !.exit = ExitStatus(run.expected_signer, run.verdict[1]),
                                      !.pc = StepAfter(run.entry, "report")]
        /\ UNCHANGED enforceFrame

InitEnforce ==
    /\ IdleExchange
    /\ IdleThreads
    /\ IdlePhantom
    /\ IdleKeccak
    /\ signature_run = <<>>
    /\ github_run = <<>>
    /\ claim_files = <<>>
    /\ IdleUtilities
    /\ \E entry \in Entries, doc \in ClaimDocs, signature \in {GoodSignature, ShortSignature},
          expected_signer \in ExpectedSigners :
          \E hash_file \in HashFilesFor(doc), claim_hash \in ClaimHashesFor(doc) :
             /\ entry # "enforce_withrawal.main" => claim_hash = EmptyText
             /\ enforce_run = NewRunOf(entry, doc, hash_file, signature, expected_signer, claim_hash)

NextEnforce ==
    \/ LoadClaim
    \/ EnsureTotalOwed
    \/ ValidateHash
    \/ CheckClaimHash
    \/ \E installed \in BOOLEAN, outcome \in RecoverOutcomes : VerifySignature(installed, outcome)
    \/ Report

SpecEnforce == InitEnforce /\ [][NextEnforce]_vars



-----------------------------------------------------------------------------
(* Writing a claim and validating it later                                  *)
(* (claims/hyperliquid_royalty_claim.write_claim_files, then                *)
(* codex_enforce._load_claim and codex_enforce.validate_hash).  Between the *)
(* two the claim file may be edited: one leaf of the JSON text is replaced  *)
(* by a different JSON value.                                               *)

\* a payload as RoyaltyClaim holds it: components_used is a tuple
DocWithComponents ==
    PyDict(<<Item("linked_wallet", PyStr(1)), Item("components_used", PyTuple(4)),
             Item("royalty_rates", RatesOf(BothFlows)),
             Item("flow_estimates", FlowsOf(BothFlows))>>)
WritablePayloads == ClaimDocs \cup {DocWithComponents}

\* json.dump(payload, file, indent=4): the text of the claim file
ClaimFileText(payload) == JsonDumps(payload, FALSE)

\* a faulty variant: the hash is taken of the text as it is written to the file
WrittenHashUnsorted(payload) == HexDigest(JsonDumps(payload, FALSE))

\* claim_hash = sha256(json.dumps(payload, sort_keys=True)).hexdigest()
WrittenHash(payload) == HexDigest(JsonDumps(payload, TRUE))

\* the leaves of a JSON text, by position: <<i>> or <<i, k>>
LeafPaths(text) ==
    {<<i>> : i \in {n \in 1 .. Len(text.items) : text.items[n].val.j # "object"}}
        \cup UNION {{<<i, k>> : k \in {n \in 1 .. Len(text.items[i].val.items) :
                                            text.items[i].val.items[n].val.j # "object"}} :
                        i \in {n \in 1 .. Len(text.items) : text.items[n].val.j = "object"}}
LeafAt(text, path) ==
    IF Len(path) = 1 THEN text.items[path[1]].val
    ELSE text.items[path[1]].val.items[path[2]].val
ReplaceLeaf(text, path, leaf) ==
    IF Len(path) = 1 THEN [text EXCEPT !.items[path[1]].val = leaf]
    ELSE [text EXCEPT !.items[path[1]].val.items[path[2]].val = leaf]
JsonLeafKinds == {"int", "float", "string", "array"}
\* the JSON values that differ from a leaf: another content, or another type
OtherLeaves(leaf) ==
    {[leaf EXCEPT !.v = leaf.v + 1]} \cup {[leaf EXCEPT !.j = jt] : jt \in JsonLeafKinds \ {leaf.j}}

claimFilesFrame == <<exchangeVars, threadVars, sessions, keccakVars,
                     signature_run, enforce_run, github_run, utilityVars>>

write_claim_files ==
    /\ claim_files.pc = "write"
    /\ claim_files' = [claim_files EXCEPT
            !.claim_text = ClaimFileText(claim_files.payload),
            !.hash_file = HashFile(WrittenHash(claim_files.payload), TRUE),
            !.pc = "written"]
    /\ UNCHANGED claimFilesFrame

\* the claim file is edited after it was written: one leaf gets another value
EditClaimFile(path, leaf) ==
    /\ claim_files.pc = "written"
    /\ claim_files.changed = <<>>
    /\ path \in LeafPaths(claim_files.claim_text)
    /\ leaf \in OtherLeaves(LeafAt(claim_files.claim_text, path))
    /\ claim_files' = [claim_files EXCEPT
            !.claim_text = ReplaceLeaf(claim_files.claim_text, path, leaf),
            !.changed = path]
    /\ UNCHANGED claimFilesFrame

\* codex_enforce._load_claim
ReloadClaim ==
    /\ claim_files.pc = "written"
    /\ claim_files' = [claim_files EXCEPT
            !.loaded = JsonLoads(claim_files.claim_text), !.pc = "loaded"]
    /\ UNCHANGED claimFilesFrame

\* codex_enforce.validate_hash on the re-loaded claim
RevalidateHash ==
    /\ claim_files.pc = "loaded"
    /\ claim_files' = [claim_files EXCEPT
            !.result = validate_hash(claim_files.loaded, claim_files.hash_file),
            !.pc = "done"]
    /\ UNCHANGED claimFilesFrame

InitClaimFiles ==
    /\ IdleExchange
    /\ IdleThreads
    /\ IdlePhantom
    /\ IdleKeccak
    /\ signature_run = <<>>
    /\ enforce_run = <<>>
    /\ github_run = <<>>
    /\ IdleUtilities
    /\ \E payload \in WritablePayloads :
          claim_files = [pc |-> "write", payload |-> payload, claim_text |-> JsonDumps(PyNone, FALSE),
                         hash_file |-> NoHashFile, changed |-> <<>>, loaded |-> PyNone,
                         result |-> ReturnNone]

NextClaimFiles ==
    \/ write_claim_files
    \/ \E path \in LeafPaths(claim_files.claim_text) :
          \E leaf \in OtherLeaves(LeafAt(claim_files.claim_text, path)) :
             EditClaimFile(path, leaf)
    \/ ReloadClaim
    \/ RevalidateHash

SpecClaimFiles == InitClaimFiles /\ [][NextClaimFiles]_vars

-----------------------------------------------------------------------------
(* GitHub commit helpers (hyperliquid/github.py).  A field of a JSON object *)
(* is [t, s]: its Python type and, for a str, its text.  An object that may *)
(* hold author data is [t, login, name, email, user]; t = "absent" is a     *)
(* missing key (get gives None), t = "int" a value that is no Mapping.      *)

NoneV == [t |-> "NoneType", s |-> ""]
StrOf(s) == [t |-> "str", s |-> s]
EmptyV == StrOf("")
IntV == [t |-> "int", s |-> "7"]

NoUser == [t |-> "absent", login |-> NoneV]
NotMappingUser == [t |-> "int", login |-> NoneV]
UserObj(login) == [t |-> "dict", login |-> login]

Obj(login, name, email, user) ==
    [t |-> "dict", login |-> login, name |-> name, email |-> email, user |-> user]
AbsentObj == [t |-> "absent", login |-> NoneV, name |-> NoneV, email |-> NoneV, user |-> NoUser]
NotMappingObj == [AbsentObj EXCEPT !.t = "int"]

\* the "commit" member: absent, no Mapping, or a Mapping with author and committer
CommitObj(commit_author, commit_committer) ==
    [t |-> "dict", author |-> commit_author, committer |-> commit_committer]
AbsentCommit == [t |-> "absent", author |-> AbsentObj, committer |-> AbsentObj]
NotMappingCommit == [AbsentCommit EXCEPT !.t = "int"]

\* a commit payload; node is <<>> (no "node" key) or <<the value under "node">>
Payload(node, author, commit_obj, committer) ==
    [t |-> "dict", node |-> node, author |-> author, commit |-> commit_obj,
     committer |-> committer]
NotMappingPayload ==
    [t |-> "int", node |-> <<>>, author |-> AbsentObj, commit |-> AbsentCommit,
     committer |-> AbsentObj]

IsMappingV(value) == value.t = "dict"

\* CommitAuthor(login, name, email, source), and None where one is expected
CommitAuthor(login, name, email, source) ==
    [some |-> TRUE, login |-> login, name |-> name, email |-> email, source |-> source]
NoDetails == [some |-> FALSE, login |-> NoneV, name |-> NoneV, email |-> NoneV,
              source |-> NoneV]

\* bool(value)
TruthyV(value) ==
    \/ value.t = "str" /\ value.s # ""
    \/ value.t = "int" /\ value.s # "0"

\* CommitAuthor.identifier
identifier(details) ==
    IF details.login.t = "str" /\ TruthyV(details.login) THEN details.login
    ELSE IF details.name.t = "str" /\ TruthyV(details.name) THEN details.name
    ELSE IF details.email.t = "str" /\ TruthyV(details.email) THEN details.email
    ELSE NoneV

\* mapping.get(key) of an object with author data
GetField(mapping, key) ==
    IF key = "login" THEN mapping.login
    ELSE IF key = "name" THEN mapping.name
    ELSE mapping.email

\* a faulty variant: every truthy value is taken, a str or not
AsStrAnyTruthy(mapping, key) ==
    LET value == GetField(mapping, key)
    IN  IF TruthyV(value) THEN value ELSE NoneV

_as_str(mapping, key) ==
    LET value == GetField(mapping, key)
    IN  IF value.t = "str" /\ TruthyV(value) THEN value ELSE NoneV

\* any((a, b, c))
AnyTruthy(values) == \E i \in 1 .. Len(values) : TruthyV(values[i])

_extract_commit_author_details(payload) ==
    IF ~IsMappingV(payload) THEN NoDetails
    ELSE
    LET commit == IF payload.node # <<>> /\ IsMappingV(payload.node[1])
                  THEN payload.node[1] ELSE payload
        author_obj == commit.author
        direct_login == _as_str(author_obj, "login")
        user_obj == author_obj.user
        user_login == IF direct_login = NoneV /\ IsMappingV(user_obj)
                      THEN _as_str(user_obj, "login") ELSE NoneV
        login == IF direct_login = NoneV /\ IsMappingV(user_obj)
                 THEN user_login ELSE direct_login
        source == IF direct_login = NoneV /\ IsMappingV(user_obj) /\ TruthyV(user_login)
                  THEN "author.user" ELSE "author"
        commit_obj == commit.commit
        commit_author == commit_obj.author
        committer_obj == commit.committer
        commit_committer == commit_obj.committer
    IN  IF /\ IsMappingV(author_obj)
           /\ AnyTruthy(<<login, _as_str(author_obj, "name"), _as_str(author_obj, "email")>>)
        THEN CommitAuthor(login, _as_str(author_obj, "name"), _as_str(author_obj, "email"),
                          StrOf(source))
        ELSE IF /\ IsMappingV(commit_obj)
                /\ IsMappingV(commit_author)
                /\ AnyTruthy(<<_as_str(commit_author, "name"), _as_str(commit_author, "email")>>)
        THEN CommitAuthor(NoneV, _as_str(commit_author, "name"),
                          _as_str(commit_author, "email"), StrOf("commit.author"))
        ELSE IF /\ IsMappingV(committer_obj)
                /\ AnyTruthy(<<_as_str(committer_obj, "login"), _as_str(committer_obj, "name"),
                         _as_str(committer_obj, "email")>>)
        THEN CommitAuthor(_as_str(committer_obj, "login"), _as_str(committer_obj, "name"),
                          _as_str(committer_obj, "email"), StrOf("committer"))
        ELSE IF /\ IsMappingV(commit_obj)
                /\ IsMappingV(commit_committer)
                /\ AnyTruthy(<<_as_str(commit_committer, "name"),
                         _as_str(commit_committer, "email")>>)
        THEN CommitAuthor(NoneV, _as_str(commit_committer, "name"),
                          _as_str(commit_committer, "email"), StrOf("commit.committer"))
        ELSE NoDetails

\* ---- get_commit_authors: one fetch per requested SHA ----

MaxShas == 3
ShaNames == {"good", "bad"}
ShaLists == UNION {[1 .. n -> ShaNames] : n \in 0 .. MaxShas}

\* what session.get gives: no response at all (the transport raised), or a
\* response with a status code and a body that parses as JSON or does not
ConnectionFailed ==
    [sent |-> FALSE, status_code |-> 0, json_ok |-> FALSE, payload |-> NotMappingPayload]
HttpResponse(status_code, json_ok, payload) ==
    [sent |-> TRUE, status_code |-> status_code, json_ok |-> json_ok, payload |-> payload]
LoginPayload ==
    Payload(<<>>, Obj(StrOf("octocat"), NoneV, NoneV, NoUser), AbsentCommit, AbsentObj)
NoAuthorPayload ==
    Payload(<<>>, AbsentObj, CommitObj(Obj(NoneV, NoneV, NoneV, NoUser), AbsentObj), AbsentObj)
HttpResponses ==
    {ConnectionFailed,
     HttpResponse(500, TRUE, Payload(<<>>, AbsentObj, AbsentCommit, AbsentObj)),
     HttpResponse(404, FALSE, NotMappingPayload),
     HttpResponse(200, FALSE, NotMappingPayload),
     HttpResponse(200, TRUE, NotMappingPayload),
     HttpResponse(200, TRUE, LoginPayload),
     HttpResponse(200, TRUE, NoAuthorPayload)}

\* response.raise_for_status() raises HTTPError
IsHttpError(response) == response.status_code >= 400 /\ response.status_code < 600

\* a faulty variant: the HTTPError is not turned into a GitHubAPIError
GetCommitUnwrapped(response) ==
    IF ~response.sent THEN Raise("ConnectionError")
    ELSE IF IsHttpError(response) THEN Raise("HTTPError")
    ELSE IF ~response.json_ok THEN Raise("JSONDecodeError")
    ELSE IF ~IsMappingV(response.payload) THEN Raise("GitHubAPIError")
    ELSE Return(response.payload)

_get_commit(response) ==
    IF ~response.sent THEN Raise("ConnectionError")
    ELSE IF IsHttpError(response) THEN Raise("GitHubAPIError")
    ELSE IF ~response.json_ok THEN Raise("JSONDecodeError")
    ELSE IF ~IsMappingV(response.payload) THEN Raise("GitHubAPIError")
    ELSE Return(response.payload)

\* results[sha] = details
SetResult(results, sha, details) ==
    [s \in DOMAIN results \cup {sha} |-> IF s = sha THEN details ELSE results[s]]

githubFrame == <<exchangeVars, threadVars, sessions, keccakVars,
                 signature_run, enforce_run, claim_files, utilityVars>>

\* one turn of the loop of get_commit_authors: the try block and its handler
FetchNextCommit(response) ==
    /\ github_run.op = "get_commit_authors"
    /\ github_run.pc = "loop"
    /\ Len(github_run.fetched) < Len(github_run.shas)
    /\ LET sha == github_run.shas[Len(github_run.fetched) + 1]
           commit == _get_commit(response)
       IN  github_run' =
             IF commit.kind = "return"
             THEN [github_run EXCEPT
                     !.fetched = Append(@, response),
                     !.results = SetResult(@, sha, _extract_commit_author_details(commit.val)),
                     !.warnings = IF _extract_commit_author_details(commit.val).some
                                  THEN @ ELSE Append(@, "does not expose an author")]
             ELSE IF commit.val = "GitHubAPIError"
             THEN [github_run EXCEPT
                     !.fetched = Append(@, response),
                     !.results = SetResult(@, sha, NoDetails),
                     !.warnings = Append(@, "Failed to fetch GitHub commit")]
             ELSE [github_run EXCEPT
                     !.fetched = Append(@, response),
                     !.pc = "raised",
                     !.raised = commit.val]
    /\ UNCHANGED githubFrame

\* return results
ReturnResults ==
    /\ github_run.op = "get_commit_authors"
    /\ github_run.pc = "loop"
    /\ Len(github_run.fetched) = Len(github_run.shas)
    /\ github_run' = [github_run EXCEPT !.pc = "returned"]
    /\ UNCHANGED githubFrame

InitCommitAuthors ==
    /\ IdleExchange
    /\ IdleThreads
    /\ IdlePhantom
    /\ IdleKeccak
    /\ signature_run = <<>>
    /\ enforce_run = <<>>
    /\ claim_files = <<>>
    /\ IdleUtilities
    /\ \E shas \in ShaLists :
          github_run = [op |-> "get_commit_authors", shas |-> shas, pc |-> "loop",
                        fetched |-> <<>>, results |-> [s \in {} |-> NoDetails],
                        warnings |-> <<>>, raised |-> ""]

NextCommitAuthors ==
    \/ \E response \in HttpResponses : FetchNextCommit(response)
    \/ ReturnResults

SpecCommitAuthors == InitCommitAuthors /\ [][NextCommitAuthors]_vars


\* ---- _extract_commit_author_details and CommitAuthor.identifier on their own ----

\* objects with author data: every field absent or a non-empty str, or all of
\* them present without being a non-empty str
PlainObjs(login, name, email) ==
    {Obj(l, n, e, NoUser) : l \in {NoneV, login}, n \in {NoneV, name}, e \in {NoneV, email}}
        \cup {Obj(EmptyV, IntV, EmptyV, NoUser)}
\* "author": also without a login of its own and with something under "user"
AuthorObjs ==
    {AbsentObj, NotMappingObj}
        \cup PlainObjs(StrOf("octocat"), StrOf("Octo Cat"), StrOf("octo@cat"))
        \cup {Obj(NoneV, n, e, u) :
                n \in {NoneV, StrOf("Octo Cat")}, e \in {NoneV, StrOf("octo@cat")},
                u \in {UserObj(StrOf("octo-user")), UserObj(EmptyV), NotMappingUser}}
CommitterObjs ==
    {AbsentObj, NotMappingObj}
        \cup PlainObjs(StrOf("merge-bot"), StrOf("Merge Bot"), StrOf("bot@merge"))
\* "commit.author" and "commit.committer": a login there is possible and unused
EmbeddedObjs(login, name, email) ==
    {AbsentObj, NotMappingObj, Obj(EmptyV, IntV, EmptyV, NoUser), Obj(login, NoneV, NoneV, NoUser)}
        \cup {Obj(NoneV, n, e, NoUser) : n \in {NoneV, name}, e \in {NoneV, email}}
CommitObjs ==
    {AbsentCommit, NotMappingCommit}
        \cup {CommitObj(a, c) :
                a \in EmbeddedObjs(StrOf("anon-login"), StrOf("Anon"), StrOf("anon@example.com")),
                c \in EmbeddedObjs(StrOf("raw-login"), StrOf("Raw Committer"), StrOf("raw@example.com"))}
\* the payload beside a "node" member: it names an author of its own
WrapperOf(node) ==
    Payload(<<node>>, Obj(StrOf("wrapper"), NoneV, NoneV, NoUser), AbsentCommit, AbsentObj)
\* where a payload of author data stands: on its own, under "node", or beside
\* a "node" member that is no mapping
PayloadShapes == {"bare", "under node", "beside node"}
ShapedPayload(shape, p) ==
    IF shape = "bare" THEN p
    ELSE IF shape = "under node" THEN WrapperOf(p)
    ELSE [p EXCEPT !.node = <<NotMappingPayload>>]

\* the values a field of a CommitAuthor may hold
AuthorFieldValues(text) == {NoneV, EmptyV, IntV, StrOf(text)}
CommitAuthors ==
    {CommitAuthor(l, n, e, NoneV) :
        l \in AuthorFieldValues("login"), n \in AuthorFieldValues("name"),
        e \in AuthorFieldValues("email")}

\* get_commit_author once the commit is fetched: the details, then the identifier
ExtractCommitAuthor ==
    /\ github_run.op = "_extract_commit_author_details"
    /\ github_run.pc = "call"
    /\ LET details == _extract_commit_author_details(github_run.payload)
       IN  github_run' = [github_run EXCEPT
              !.details = details,
              !.identifier = IF details.some THEN identifier(details) ELSE NoneV,
              !.pc = "returned"]
    /\ UNCHANGED githubFrame

\* CommitAuthor.identifier of any CommitAuthor
ReadIdentifier ==
    /\ github_run.op = "identifier"
    /\ github_run.pc = "call"
    /\ github_run' = [github_run EXCEPT
          !.identifier = identifier(github_run.details), !.pc = "returned"]
    /\ UNCHANGED githubFrame

InitExtract ==
    /\ IdleExchange
    /\ IdleThreads
    /\ IdlePhantom
    /\ IdleKeccak
    /\ signature_run = <<>>
    /\ enforce_run = <<>>
    /\ claim_files = <<>>
    /\ IdleUtilities
    /\ \/ \E payload \in {NotMappingPayload} :
             github_run = [op |-> "_extract_commit_author_details", pc |-> "call",
                           payload |-> payload, details |-> NoDetails, identifier |-> NoneV]
       \/ \E a \in AuthorObjs, c \in CommitObjs, m \in CommitterObjs, shape \in PayloadShapes :
             github_run = [op |-> "_extract_commit_author_details", pc |-> "call",
                           payload |-> ShapedPayload(shape, Payload(<<>>, a, c, m)),
                           details |-> NoDetails, identifier |-> NoneV]
       \/ \E author \in CommitAuthors :
             github_run = [op |-> "identifier", pc |-> "call",
                           payload |-> NotMappingPayload, details |-> author,
                           identifier |-> NoneV]

NextExtract ==
    \/ ExtractCommitAuthor
    \/ ReadIdentifier

SpecExtract == InitExtract /\ [][NextExtract]_vars

-----------------------------------------------------------------------------
(* Ledger settlements (claim_kin_agent_attribution/payments.py).  A raw     *)
(* JSON value is [r, n]: what it is ("None", "" and "NaN" as written, "nan" *)
(* for any other spelling Decimal reads as a NaN, "junk" for a text Decimal *)
(* rejects, "number" for a numeral) and the number.  A Decimal is [k, n].   *)

MaxUpdates == 3

RawNone == [r |-> "None", n |-> 0]
RawNum(n) == [r |-> "number", n |-> n]
RawOf(r) == [r |-> r, n |-> 0]
\* bool(value) of a raw value: numerals come as non-empty text
RawTruthy(value) == value.r \notin {"None", ""}

NoneDec == [k |-> "none", n |-> 0]
NaNDec == [k |-> "nan", n |-> 0]
Dec(n) == [k |-> "num", n |-> n]
\* bool(decimal): None and zero are falsy, a NaN is not
DecTruthy(d) == d.k = "nan" \/ (d.k = "num" /\ d.n # 0)
DecMul(a, b) == IF a.k = "nan" \/ b.k = "nan" THEN NaNDec ELSE Dec(a.n * b.n)
DecAdd(a, b) == IF a.k = "nan" \/ b.k = "nan" THEN NaNDec ELSE Dec(a.n + b.n)

_as_decimal(value) ==
    IF value.r \in {"None", "", "NaN"} THEN NoneDec
    ELSE IF value.r = "junk" THEN NoneDec
    ELSE IF value.r = "nan" THEN NaNDec
    ELSE Dec(value.n)

\* a ledger delta; has_usdc is `"usdc" in delta`, an absent key reads as None
Delta(type, has_usdc, usdc, usdcValue, amount, fee, destination) ==
    [type |-> type, has_usdc |-> has_usdc, usdc |-> usdc, usdcValue |-> usdcValue,
     amount |-> amount, fee |-> fee, nativeTokenFee |-> RawNone, destination |-> destination]
UsdcDelta(type, usdc) == Delta(type, TRUE, usdc, RawNone, RawNone, RawNone, RawNone)

_extract_amount_from_delta(delta) ==
    IF delta.has_usdc /\ delta.type # "spotTransfer" THEN _as_decimal(delta.usdc)
    ELSE IF delta.type = "spotTransfer"
    THEN LET amount == _as_decimal(IF RawTruthy(delta.usdcValue)
                                   THEN delta.usdcValue ELSE delta.amount)
             fee == IF DecTruthy(_as_decimal(delta.fee))
                    THEN _as_decimal(delta.fee) ELSE Dec(0)
             native_fee == IF DecTruthy(_as_decimal(delta.nativeTokenFee))
                           THEN _as_decimal(delta.nativeTokenFee) ELSE Dec(0)
             direction_multiplier == IF RawTruthy(delta.destination) THEN Dec(-1) ELSE Dec(1)
         IN  IF amount = NoneDec THEN NoneDec
             ELSE DecAdd(DecAdd(DecMul(direction_multiplier, amount),
                                DecMul(direction_multiplier, fee)),
                         DecMul(direction_multiplier, native_fee))
    ELSE NoneDec

\* a ledger update: is_dict and delta_is_dict are the isinstance tests; time is
\* <<>> when the key is absent and <<raw>> otherwise
Update(time, hash, delta) ==
    [is_dict |-> TRUE, time |-> time, hash |-> hash, delta_is_dict |-> TRUE, delta |-> delta]
NoDelta == Delta("", FALSE, RawNone, RawNone, RawNone, RawNone, RawNone)
LedgerUpdates ==
    {[Update(<<>>, "", NoDelta) EXCEPT !.is_dict = FALSE],
     [Update(<<RawNum(1)>>, "0xnodelta", NoDelta) EXCEPT !.delta_is_dict = FALSE],
     Update(<<RawNum(2)>>, "0xdeposit", UsdcDelta("deposit", RawNum(5))),
     Update(<<RawNum(1)>>, "0xtransfer", UsdcDelta("accountClassTransfer", RawNum(-3))),
     Update(<<RawNum(1)>>, "0xspot",
            Delta("spotTransfer", FALSE, RawNone, RawNum(2), RawNum(2), RawNum(1), RawOf("junk"))),
     Update(<<RawNum(2)>>, "0xzero", UsdcDelta("deposit", RawNum(0))),
     Update(<<RawNum(2)>>, "0xnote", Delta("note", FALSE, RawNone, RawNone, RawNone, RawNone, RawNone)),
     Update(<<RawNum(2)>>, "0xNaN", UsdcDelta("deposit", RawOf("NaN"))),
     Update(<<RawNum(2)>>, "0xnan", UsdcDelta("deposit", RawOf("nan"))),
     Update(<<>>, "0xuntimed", UsdcDelta("withdraw", RawNum(-1)))}
UpdateLists == UNION {[1 .. n -> LedgerUpdates] : n \in 0 .. MaxUpdates}

\* what one turn of the loop does with an entry: nothing, a settlement, or an
\* exception (Decimal refuses to order a NaN)
Skipped == [act |-> "skip", time_ms |-> 0, tx_hash |-> "", kind |-> "", amount_usd |-> NoneDec,
            direction |-> ""]
SettlementOf(entry) ==
    LET amount == _extract_amount_from_delta(entry.delta)
    IN  IF ~entry.is_dict \/ ~entry.delta_is_dict THEN Skipped
        ELSE IF amount = NoneDec \/ amount = Dec(0) THEN Skipped
        ELSE IF amount.k = "nan" THEN [Skipped EXCEPT !.act = "InvalidOperation"]
        ELSE [act |-> "append",
              time_ms |-> IF entry.time = <<>> THEN 0 ELSE entry.time[1].n,
              tx_hash |-> entry.hash, kind |-> entry.delta.type, amount_usd |-> amount,
              direction |-> IF amount.n > 0 THEN "credit" ELSE "debit"]

\* settlements.sort(key=lambda settlement: settlement.time_ms): a stable sort
SortByTime(settlements) ==
    LET n == Len(settlements)
        Before(i, j) == \/ settlements[i].time_ms < settlements[j].time_ms
                        \/ settlements[i].time_ms = settlements[j].time_ms /\ i < j
    IN  [p \in 1 .. n |->
            settlements[CHOOSE j \in 1 .. n :
                            Cardinality({i \in 1 .. n : Before(i, j)}) = p - 1]]

payments_extract(updates) ==
    LET steps == [i \in 1 .. Len(updates) |-> SettlementOf(updates[i])]
        IsAppend(step) == step.act = "append"
    IN  IF \E i \in 1 .. Len(steps) : steps[i].act = "InvalidOperation"
        THEN Raise("InvalidOperation")
        ELSE Return(SortByTime(SelectSeq(steps, IsAppend)))

total_settlement_amount(settlements) ==
    LET sum[i \in 0 .. Len(settlements)] ==
            IF i = 0 THEN Dec(0) ELSE DecAdd(sum[i - 1], settlements[i].amount_usd)
    IN  sum[Len(settlements)]

payments_frame == <<exchangeVars, threadVars, sessions, keccakVars, signature_run, enforce_run,
                    github_run, claim_files, scan_run, report_run, withdraw_run, fetch_run,
                    registry_run, builder_run, search_run, caller_run>>

extract_payment_settlements ==
    /\ payments_run.pc = "call"
    /\ payments_run' = [payments_run EXCEPT
          !.result = payments_extract(payments_run.updates),
          !.pc = IF payments_extract(payments_run.updates).kind = "return"
                 THEN "extracted" ELSE "raised"]
    /\ UNCHANGED payments_frame

TotalSettlementAmount ==
    /\ payments_run.pc = "extracted"
    /\ payments_run' = [payments_run EXCEPT
          !.total = total_settlement_amount(payments_run.result.val), !.pc = "summed"]
    /\ UNCHANGED payments_frame

InitPayments ==
    /\ IdleExchange
    /\ IdleThreads
    /\ IdlePhantom
    /\ IdleKeccak
    /\ signature_run = <<>>
    /\ enforce_run = <<>>
    /\ github_run = <<>>
    /\ claim_files = <<>>
    /\ scan_run = <<>>
    /\ report_run = <<>>
    /\ withdraw_run = <<>>
    /\ fetch_run = <<>>
    /\ registry_run = <<>>
    /\ builder_run = <<>>
    /\ search_run = <<>>
    /\ caller_run = <<>>
    /\ \E updates \in UpdateLists :
          payments_run = [pc |-> "call", updates |-> updates, result |-> ReturnNone,
                          total |-> NoneDec]

NextPayments ==
    \/ extract_payment_settlements
    \/ TotalSettlementAmount

SpecPayments == InitPayments /\ [][NextPayments]_vars

-----------------------------------------------------------------------------
(* scan_user_proof_hub.scan_network: the explorer yields search results one *)
(* by one, or fails; each result is handled by one turn of the inner loop.  *)

MaxIndicators == 2
MaxItems == 3

\* a search result: the three keys an address is looked for under ("" if absent)
SearchItem(address_hash, address, address_hashes) ==
    [address_hash |-> address_hash, address |-> address, address_hashes |-> address_hashes]
SearchItems ==
    {SearchItem(Addr1Upper, EmptyStr, EmptyStr), SearchItem(EmptyStr, Addr1, EmptyStr),
     SearchItem(EmptyStr, EmptyStr, Addr2), SearchItem(EmptyStr, Lower(Addr2), Addr1),
     SearchItem(EmptyStr, EmptyStr, EmptyStr)}

\* a faulty variant: the address is taken as it is spelt
ItemAddressAsSpelt(item) ==
    IF Truthy(item.address_hash) THEN item.address_hash
    ELSE IF Truthy(item.address) THEN item.address
    ELSE item.address_hashes

\* item.get("address_hash") or item.get("address") or item.get("address_hashes"),
\* lower-cased when there is one
ItemAddress(item) ==
    IF Truthy(item.address_hash) THEN Lower(item.address_hash)
    ELSE IF Truthy(item.address) THEN Lower(item.address)
    ELSE Lower(item.address_hashes)

\* what fetch_contract and find_matches make of an address
FetchOutcomes == {"match", "no match", "ExplorerError"}

scan_frame == <<exchangeVars, threadVars, sessions, keccakVars, signature_run, enforce_run,
                github_run, claim_files, payments_run, report_run, withdraw_run, fetch_run,
                registry_run, builder_run, search_run, caller_run>>

\* one turn of `for item in results`
ScanItem(item, outcome) ==
    /\ scan_run.pc = "search"
    /\ scan_run.indicators > 0
    /\ Len(scan_run.yielded) < MaxItems
    /\ LET address == ItemAddress(item)
       IN  scan_run' =
             IF ~Truthy(address) \/ address \in scan_run.seen_addresses
             THEN [scan_run EXCEPT !.yielded = Append(@, item)]
             ELSE [scan_run EXCEPT
                     !.yielded = Append(@, item),
                     !.seen_addresses = @ \cup {address},
                     !.fetched = Append(@, address),
                     !.matches = IF outcome = "match" THEN Append(@, address) ELSE @]
    /\ UNCHANGED scan_frame

\* the results of an indicator end, or the search raises ExplorerError, which
\* is logged: the outer loop goes on with the next indicator
SearchEnds(failed) ==
    /\ scan_run.pc = "search"
    /\ scan_run.indicators > 0
    /\ scan_run' = [scan_run EXCEPT
          !.indicators = @ - 1,
          !.errors = IF failed THEN @ + 1 ELSE @]
    /\ UNCHANGED scan_frame

\* return matches
ReturnMatches ==
    /\ scan_run.pc = "search"
    /\ scan_run.indicators = 0
    /\ scan_run' = [scan_run EXCEPT !.pc = "returned"]
    /\ UNCHANGED scan_frame

InitScan ==
    /\ IdleExchange
    /\ IdleThreads
    /\ IdlePhantom
    /\ IdleKeccak
    /\ signature_run = <<>>
    /\ enforce_run = <<>>
    /\ github_run = <<>>
    /\ claim_files = <<>>
    /\ payments_run = <<>>
    /\ report_run = <<>>
    /\ withdraw_run = <<>>
    /\ fetch_run = <<>>
    /\ registry_run = <<>>
    /\ builder_run = <<>>
    /\ search_run = <<>>
    /\ caller_run = <<>>
    /\ \E n \in 0 .. MaxIndicators :
          scan_run = [pc |-> "search", indicators |-> n, yielded |-> <<>>,
                      seen_addresses |-> {}, fetched |-> <<>>, matches |-> <<>>, errors |-> 0]

NextScan ==
    \/ \E item \in SearchItems, outcome \in FetchOutcomes : ScanItem(item, outcome)
    \/ \E failed \in BOOLEAN : SearchEnds(failed)
    \/ ReturnMatches

SpecScan == InitScan /\ [][NextScan]_vars

-----------------------------------------------------------------------------
(* scan_user_proof_hub.build_proof_report.  Dicts are functions from their  *)
(* keys; the template and the report are objects of a heap, so that a write *)
(* through one name is seen through every name of the same object.          *)

MaxMatches == 2

\* the characters of an address in the order of their code points
AddressChars == <<"0", "1", "2", "3", "4", "5", "6", "7", "8", "9",
                  "A", "B", "C", "D", "E", "F", "a", "b", "c", "d", "e", "f", "x">>
CodePoint(c) == CHOOSE i \in 1 .. Len(AddressChars) : AddressChars[i] = c
\* a < b for two str
StrLess(a, b) ==
    \E i \in 1 .. Len(b) :
        /\ \A k \in 1 .. i - 1 : k <= Len(a) /\ a[k] = b[k]
        /\ i > Len(a) \/ (i <= Len(a) /\ CodePoint(a[i]) < CodePoint(b[i]))
\* sorted(a set of str)
SortedStrs(strs) ==
    [i \in 1 .. Cardinality(strs) |->
        CHOOSE a \in strs : Cardinality({b \in strs : StrLess(b, a)}) = i - 1]

\* the networks in the order sorted() puts their names
NetworkNames == <<"arbitrum", "avalanche", "base">>
NetworkRank(network) == CHOOSE i \in 1 .. Len(NetworkNames) : NetworkNames[i] = network

ContractMatchOf(address, name, reasons) ==
    [address |-> address, name |-> name, explorer_url |-> "https://one", reasons |-> reasons]
ContractMatches ==
    {ContractMatchOf(Addr1Upper, "UserProofHub", <<"selectors">>),
     ContractMatchOf(Addr1, "UserProofHub", <<"events">>),
     ContractMatchOf(Addr2, "None", <<"selectors", "keywords">>)}
MatchLists == UNION {[1 .. n -> ContractMatches] : n \in 0 .. MaxMatches}
\* matches_by_network: its items in insertion order, at most two networks
MatchesByNetwork ==
    {<<>>}
        \cup {<<[network |-> a, matches |-> ms]>> :
                a \in {NetworkNames[i] : i \in 1 .. 3}, ms \in MatchLists}
        \cup {items \in {<<[network |-> a, matches |-> ms], [network |-> b, matches |-> ns]>> :
                                a \in {"base", "avalanche"}, b \in {"arbitrum", "base"},
                                ms \in MatchLists, ns \in MatchLists} :
                    items[1].network # items[2].network}

Templates ==
    {[source |-> "SoulSync / KinKey Protocol"],
     [source |-> "SoulSync / KinKey Protocol", match_count |-> 7,
      matching_addresses |-> <<Addr2>>]}

collect_unique_addresses(matches_by_network) ==
    SortedStrs(UNION {{Lower(matches_by_network[i].matches[k].address) :
                            k \in 1 .. Len(matches_by_network[i].matches)} :
                        i \in 1 .. Len(matches_by_network)})

\* sorted(matches_by_network.items())
SortedNetworkItems(matches_by_network) ==
    [i \in 1 .. Len(matches_by_network) |->
        matches_by_network[CHOOSE j \in 1 .. Len(matches_by_network) :
            Cardinality({m \in 1 .. Len(matches_by_network) :
                            NetworkRank(matches_by_network[m].network)
                                < NetworkRank(matches_by_network[j].network)}) = i - 1]]

\* {"network": network, **match.to_dict()}
ContractEntry(network, match) ==
    [network |-> network, address |-> match.address, name |-> match.name,
     explorer_url |-> match.explorer_url, reasons |-> match.reasons]

RECURSIVE MatchingContracts(_)
MatchingContracts(items) ==
    IF items = <<>> THEN <<>>
    ELSE [k \in 1 .. Len(Head(items).matches) |->
            ContractEntry(Head(items).network, Head(items).matches[k])]
         \o MatchingContracts(Tail(items))

\* d[k] = v
SetKey(d, k, v) == [x \in DOMAIN d \cup {k} |-> IF x = k THEN v ELSE d[x]]

\* a faulty variant: the report is the template itself
ReportObjectAliased(template_ref) == template_ref

\* report = deepcopy(template): a new object
ReportObject(template_ref) == "report"

report_frame == <<exchangeVars, threadVars, sessions, keccakVars, signature_run, enforce_run,
                  github_run, claim_files, payments_run, scan_run, withdraw_run, fetch_run,
                  registry_run, builder_run, search_run, caller_run>>

build_proof_report ==
    /\ report_run.pc = "call"
    /\ LET report == ReportObject("template")
           copied == [report_run.heap EXCEPT ![report] = report_run.heap["template"]]
           contracts == MatchingContracts(SortedNetworkItems(report_run.matches_by_network))
           written ==
               [copied EXCEPT ![report] =
                   SetKey(SetKey(SetKey(@, "matching_addresses",
                                        collect_unique_addresses(report_run.matches_by_network)),
                                 "matching_contracts", contracts),
                          "match_count", Len(contracts))]
       IN  report_run' = [report_run EXCEPT
              !.heap = written, !.returned = report, !.pc = "returned"]
    /\ UNCHANGED report_frame

\* main: output_path.write_text(json.dumps(report_data, indent=2))
SaveReport ==
    /\ report_run.pc = "returned"
    /\ report_run' = [report_run EXCEPT
          !.pc = "saved", !.saved = report_run.heap[report_run.returned]]
    /\ UNCHANGED report_frame

InitReport ==
    /\ IdleExchange
    /\ IdleThreads
    /\ IdlePhantom
    /\ IdleKeccak
    /\ signature_run = <<>>
    /\ enforce_run = <<>>
    /\ github_run = <<>>
    /\ claim_files = <<>>
    /\ payments_run = <<>>
    /\ scan_run = <<>>
    /\ withdraw_run = <<>>
    /\ fetch_run = <<>>
    /\ registry_run = <<>>
    /\ builder_run = <<>>
    /\ search_run = <<>>
    /\ caller_run = <<>>
    /\ \E template \in Templates, matches_by_network \in MatchesByNetwork :
          report_run = [pc |-> "call", template |-> template,
                        matches_by_network |-> matches_by_network,
                        heap |-> [o \in {"template", "report"} |->
                                    IF o = "template" THEN template ELSE <<>>],
                        returned |-> "", saved |-> <<>>]

NextReport ==
    \/ build_proof_report
    \/ SaveReport

SpecReport == InitReport /\ [][NextReport]_vars

-----------------------------------------------------------------------------
(* claim_kin_agent_attribution/withdrawals.perform_withdrawal.  The amount  *)
(* is a Decimal [k, n]; k = "tiny" is a positive Decimal below the least    *)
(* positive float.  The exchange class and its withdraw_from_bridge are     *)
(* collaborators: each may return or raise.                                 *)

WithdrawalAmounts == {Dec(-1), Dec(0), Dec(1), Dec(12345), NaNDec, [k |-> "tiny", n |-> 0]}
Destinations == {Addr1, Addr2}
BaseUrls == {"None", "", "https://api.example"}

\* a faulty variant: zero passes
AmountRejectedBelowZero(amount) ==
    IF amount.k = "nan" THEN Raise("InvalidOperation")
    ELSE IF amount.k = "num" /\ amount.n < 0 THEN Raise("ValueError")
    ELSE ReturnNone

\* if amount <= 0: raise ValueError(...); Decimal refuses to order a NaN
AmountRejected(amount) ==
    IF amount.k = "nan" THEN Raise("InvalidOperation")
    ELSE IF amount.k = "num" /\ amount.n <= 0 THEN Raise("ValueError")
    ELSE ReturnNone

\* float(amount)
ToFloat(amount) == [float |-> IF amount.k = "tiny" THEN 0 ELSE amount.n]

\* base_url or the default of the branch taken
ResolvedBaseUrl(base_url, exchange_cls) ==
    IF base_url \notin {"None", ""} THEN base_url
    ELSE IF exchange_cls = "None" THEN "MAINNET_API_URL" ELSE "https://api.hyperliquid.xyz"

withdraw_frame == <<exchangeVars, threadVars, sessions, keccakVars, signature_run, enforce_run,
                    github_run, claim_files, payments_run, scan_run, report_run, fetch_run,
                    registry_run, builder_run, search_run, caller_run>>

\* lines 96-97
CheckAmount ==
    /\ withdraw_run.pc = "check"
    /\ withdraw_run' =
          IF AmountRejected(withdraw_run.amount).kind = "raise"
          THEN [withdraw_run EXCEPT !.pc = "raised",
                                    !.raised = AmountRejected(withdraw_run.amount).val]
          ELSE [withdraw_run EXCEPT !.pc = "construct"]
    /\ UNCHANGED withdraw_frame

\* lines 99-108: exchange_cls(wallet, resolved_base_url, account_address=...)
ConstructExchange(ok) ==
    /\ withdraw_run.pc = "construct"
    /\ withdraw_run' = [withdraw_run EXCEPT
          !.constructed = Append(@, [cls |-> IF withdraw_run.exchange_cls = "None"
                                             THEN "Exchange" ELSE withdraw_run.exchange_cls,
                                     base_url |-> ResolvedBaseUrl(withdraw_run.base_url,
                                                                  withdraw_run.exchange_cls),
                                     account_address |-> withdraw_run.account_address]),
          !.pc = IF ok THEN "withdraw" ELSE "raised",
          !.raised = IF ok THEN @ ELSE "ConstructorError"]
    /\ UNCHANGED withdraw_frame

\* line 109: return exchange.withdraw_from_bridge(float(amount), destination)
WithdrawFromBridge(response) ==
    /\ withdraw_run.pc = "withdraw"
    /\ withdraw_run' = [withdraw_run EXCEPT
          !.calls = Append(@, [amount |-> ToFloat(withdraw_run.amount),
                               destination |-> withdraw_run.destination,
                               response |-> response]),
          !.pc = IF response = "raises" THEN "raised" ELSE "returned",
          !.raised = IF response = "raises" THEN "ExchangeError" ELSE @,
          !.returned = IF response = "raises" THEN @ ELSE response]
    /\ UNCHANGED withdraw_frame

InitWithdraw ==
    /\ IdleExchange
    /\ IdleThreads
    /\ IdlePhantom
    /\ IdleKeccak
    /\ signature_run = <<>>
    /\ enforce_run = <<>>
    /\ github_run = <<>>
    /\ claim_files = <<>>
    /\ payments_run = <<>>
    /\ scan_run = <<>>
    /\ report_run = <<>>
    /\ fetch_run = <<>>
    /\ registry_run = <<>>
    /\ builder_run = <<>>
    /\ search_run = <<>>
    /\ caller_run = <<>>
    /\ \E amount \in WithdrawalAmounts, destination \in Destinations, base_url \in BaseUrls,
          exchange_cls \in {"None", "factory"} :
          withdraw_run = [pc |-> "check", amount |-> amount, destination |-> destination,
                          base_url |-> base_url, exchange_cls |-> exchange_cls,
                          account_address |-> Addr1Lower, constructed |-> <<>>,
                          calls |-> <<>>, raised |-> "", returned |-> ""]

NextWithdraw ==
    \/ CheckAmount
    \/ \E ok \in BOOLEAN : ConstructExchange(ok)
    \/ \E response \in {"status ok", "status err", "raises"} : WithdrawFromBridge(response)

SpecWithdraw == InitWithdraw /\ [][NextWithdraw]_vars

-----------------------------------------------------------------------------
(* scan_userproofhub.fetch_json: one action per turn of its `while True`.   *)
(* What a request meets is drawn from RequestOutcomes: an HTTP status, a    *)
(* URLError, a time-out while the body is read, or a body that is JSON, is  *)
(* not JSON, or cannot be decoded with the response's charset.              *)

MaxRetries == 2

RetryStatuses == {429, 500, 502, 503, 504}
HttpStatuses == {404, 429, 500, 503}
Http(status) == [kind |-> "HTTPError", status |-> status]
Outcome(kind) == [kind |-> kind, status |-> 200]
RequestOutcomes ==
    {Http(s) : s \in HttpStatuses}
        \cup {Outcome(k) : k \in {"URLError", "read timeout", "json", "not json", "not text"}}

\* what one turn of the loop ends in: "continue", a return or an exception
AttemptResult(outcome, attempt, retries) ==
    IF outcome.kind = "json" THEN "return"
    ELSE IF outcome.kind = "HTTPError"
    THEN IF outcome.status \in RetryStatuses /\ attempt < retries
         THEN "continue" ELSE "ExplorerError"
    ELSE IF outcome.kind = "URLError"
    THEN IF attempt < retries THEN "continue" ELSE "ExplorerError"
    ELSE IF outcome.kind = "not json" THEN "ExplorerError"
    ELSE IF outcome.kind = "not text" THEN "UnicodeDecodeError"
    ELSE "TimeoutError"

fetch_frame == <<exchangeVars, threadVars, sessions, keccakVars, signature_run, enforce_run,
                 github_run, claim_files, payments_run, scan_run, report_run, withdraw_run,
                 registry_run, builder_run, search_run, caller_run>>

fetch_json(outcome) ==
    /\ fetch_run.pc = "loop"
    /\ LET result == AttemptResult(outcome, fetch_run.attempt, fetch_run.retries)
       IN  fetch_run' = [fetch_run EXCEPT
              !.requests = Append(@, outcome),
              !.attempt = IF result = "continue" THEN @ + 1 ELSE @,
              !.slept = IF result = "continue" THEN @ + 1 ELSE @,
              !.pc = IF result = "continue" THEN "loop"
                     ELSE IF result = "return" THEN "returned" ELSE "raised",
              !.raised = IF result \in {"continue", "return"} THEN @ ELSE result]
    /\ UNCHANGED fetch_frame

InitFetch ==
    /\ IdleExchange
    /\ IdleThreads
    /\ IdlePhantom
    /\ IdleKeccak
    /\ signature_run = <<>>
    /\ enforce_run = <<>>
    /\ github_run = <<>>
    /\ claim_files = <<>>
    /\ payments_run = <<>>
    /\ scan_run = <<>>
    /\ report_run = <<>>
    /\ withdraw_run = <<>>
    /\ registry_run = <<>>
    /\ builder_run = <<>>
    /\ search_run = <<>>
    /\ caller_run = <<>>
    /\ \E retries \in 0 .. MaxRetries :
          fetch_run = [pc |-> "loop", retries |-> retries, attempt |-> 0, requests |-> <<>>,
                       slept |-> 0, raised |-> ""]

NextFetch == \E outcome \in RequestOutcomes : fetch_json(outcome)

SpecFetch == InitFetch /\ [][NextFetch]_vars

-----------------------------------------------------------------------------
(* Recording with bulk_orders_tx and submitting the recorded action later,  *)
(* the session's expiry changing in between.                                *)

\* the records a caller of pending_unsigned_actions() has in hand
HeldRecords ==
    {PendingOf(unsigned_actions, NoneAddr)[i] :
        i \in DOMAIN PendingOf(unsigned_actions, NoneAddr)}

NextRecorded ==
    \/ \E i \in BulkInputs :
          /\ RecordCount(unsigned_actions) < MaxTxRecords
          /\ bulk_orders_tx(i[1], i[2], i[3])
    \/ \E e \in ExpiryValues : set_expires_after(e)
    \/ \E record \in HeldRecords, s \in Signatures, r \in Responses :
          submit_signed_action(record.action, s, record.nonce, r)

SpecRecorded == Init /\ [][NextRecorded]_vars

-----------------------------------------------------------------------------
(* The caller of pending_unsigned_actions changing the list it was handed,  *)
(* between calls that read the registry or post.                            *)

\* elements the caller's list holds at most
MaxHeld == 2
\* records the registry holds at once while a caller works on a returned list
MaxCallerRecords == 1

\* a dict of the caller's own making
CallerObject ==
    [stored |-> FALSE, key |-> EmptyStr, i |-> 0,
     fields |-> [signer |-> Addr2Lower,
                 typedData |-> get_l1_action_data(DummyAction, NoneAddr, 0, NoneInt, FALSE),
                 nonce |-> 0, vaultAddress |-> NoneAddr, expiresAfter |-> NoneInt,
                 action |-> DummyAction]]

\* the top-level field the caller rebinds, to the value 0
ReboundFields == {"nonce"}

\* d after d[key][i][field] = value
RegistryRebound(d, key, i, field, value) ==
    [d EXCEPT ![DictIndex(d, key)].records[i][field] = value]

caller_exchange_frame ==
    <<wallet, account_address, vault_address, expires_after, is_mainnet_url,
      posted, signed, history>>

\* returned.append(CallerObject)
CallerAppends ==
    /\ caller_run # <<>>
    /\ Len(caller_run.items) < MaxHeld
    /\ op' = [name |-> "caller", does |-> "append"]
    /\ ret' = ReturnNone
    /\ before' = Snapshot
    /\ caller_run' = [caller_run EXCEPT !.items = Append(@, CallerObject)]
    /\ UNCHANGED unsigned_actions
    /\ UNCHANGED caller_exchange_frame
    /\ UNCHANGED callerFrame

\* del returned[j]
CallerRemoves(j) ==
    /\ caller_run # <<>>
    /\ j \in DOMAIN caller_run.items
    /\ op' = [name |-> "caller", does |-> "del"]
    /\ ret' = ReturnNone
    /\ before' = Snapshot
    /\ caller_run' = [caller_run EXCEPT !.items = SubSeq(@, 1, j - 1) \o SubSeq(@, j + 1, Len(@))]
    /\ UNCHANGED unsigned_actions
    /\ UNCHANGED caller_exchange_frame
    /\ UNCHANGED callerFrame

\* returned[j][field] = 0: the dict returned[j] refers to is changed, and with
\* it the registry when that dict is a stored one
CallerRebinds(j, field) ==
    /\ caller_run # <<>>
    /\ j \in DOMAIN caller_run.items
    /\ op' = [name |-> "caller", does |-> "rebind"]
    /\ ret' = ReturnNone
    /\ before' = Snapshot
    /\ caller_run' = [caller_run EXCEPT !.items[j].fields[field] = 0]
    /\ unsigned_actions' =
          IF caller_run.items[j].stored
          THEN RegistryRebound(unsigned_actions, caller_run.items[j].key,
                               caller_run.items[j].i, field, 0)
          ELSE unsigned_actions
    /\ UNCHANGED caller_exchange_frame
    /\ UNCHANGED callerFrame

NextCaller ==
    \/ \E i \in {b \in BulkInputs : b[2] = NoBuilder} :
          /\ RecordCount(unsigned_actions) < MaxCallerRecords
          /\ bulk_orders_tx(i[1], i[2], i[3])
    \/ PendingCall(Addr1Upper, TRUE)
    \/ set_expires_after(1)
    \/ \E record \in HeldRecords, s \in Signatures :
          submit_signed_action(record.action, s, record.nonce, "ok")
    \/ CallerAppends
    \/ \E j \in 1 .. MaxHeld : CallerRemoves(j)
    \/ \E j \in 1 .. MaxHeld, field \in ReboundFields : CallerRebinds(j, field)

InitCaller ==
    /\ InitExchange({Addr1})
    /\ IdleThreads
    /\ IdlePhantom
    /\ IdleKeccak
    /\ IdleTools

SpecCaller == InitCaller /\ [][NextCaller]_vars

-----------------------------------------------------------------------------
(* codex_registry_add.py: the registry file under upsert_registry_entry *)

\* entries the registry file holds at the start
MaxRegistry == 1
\* calls of upsert_registry_entry in one run
MaxUpserts == 3

ClaimPaths == {"claims/a.json", "claims/b.json", "claims/c.json"}
ClaimHashes == {"h1", "h2"}
RegistryEntry(claim_path, claim_hash) == [claim_path |-> claim_path, claim_hash |-> claim_hash]
RegistryEntries == {RegistryEntry(p, h) : p \in ClaimPaths, h \in ClaimHashes}

\* no two entries of the list share a claim_path
DistinctClaimPaths(registry) ==
    \A i, j \in DOMAIN registry :
        registry[i].claim_path = registry[j].claim_path => i = j

\* the lists a registry file holds before the first call
RegistryLists ==
    {registry \in UNION {[1 .. n -> RegistryEntries] : n \in 0 .. MaxRegistry} :
        DistinctClaimPaths(registry)}

\* the registry file: missing, a JSON list, or JSON of another kind
MissingFile == [kind |-> "missing", data |-> <<>>]
ListFile(registry) == [kind |-> "list", data |-> registry]
ObjectFile == [kind |-> "object", data |-> <<>>]

_load_registry(file) ==
    IF file.kind = "missing" THEN Return(<<>>)
    ELSE IF file.kind = "list" THEN Return(file.data)
    ELSE Raise("ValueError")

\* a faulty variant: the entry is appended whatever the list holds
UpsertedByAppending(registry, entry) == Append(registry, entry)

\* the list after the loop of lines 83-89: the first entry with the claim_path
\* of entry is replaced where it stands, or entry is appended
Upserted(registry, entry) ==
    IF \E i \in DOMAIN registry : registry[i].claim_path = entry.claim_path
    THEN LET index == CHOOSE i \in DOMAIN registry :
                          /\ registry[i].claim_path = entry.claim_path
                          /\ \A j \in 1 .. i - 1 : registry[j].claim_path # entry.claim_path
         IN  [registry EXCEPT ![index] = entry]
    ELSE Append(registry, entry)

registry_frame == <<exchangeVars, threadVars, sessions, keccakVars, signature_run, enforce_run,
                    github_run, claim_files, payments_run, scan_run, report_run, withdraw_run,
                    fetch_run, builder_run, search_run, caller_run>>

upsert_registry_entry(entry) ==
    /\ Len(registry_run.upserts) < MaxUpserts
    /\ LET loaded == _load_registry(registry_run.file)
       IN  registry_run' =
              IF loaded.kind = "raise"
              THEN [registry_run EXCEPT !.entry = entry, !.before = registry_run.file,
                                        !.result = loaded]
              ELSE [file |-> ListFile(Upserted(loaded.val, entry)),
                    before |-> registry_run.file,
                    entry |-> entry,
                    upserts |-> Append(registry_run.upserts, entry),
                    first |-> registry_run.first,
                    result |-> Return(Upserted(loaded.val, entry))]
    /\ UNCHANGED registry_frame

InitRegistry ==
    /\ IdleExchange
    /\ IdleThreads
    /\ IdlePhantom
    /\ IdleKeccak
    /\ signature_run = <<>>
    /\ enforce_run = <<>>
    /\ github_run = <<>>
    /\ claim_files = <<>>
    /\ payments_run = <<>>
    /\ scan_run = <<>>
    /\ report_run = <<>>
    /\ withdraw_run = <<>>
    /\ fetch_run = <<>>
    /\ builder_run = <<>>
    /\ search_run = <<>>
    /\ caller_run = <<>>
    /\ \E file \in {MissingFile, ObjectFile} \cup {ListFile(r) : r \in RegistryLists} :
          registry_run = [file |-> file, before |-> file, entry |-> <<>>, upserts |-> <<>>,
                          first |-> file.data, result |-> ReturnNone]

NextRegistry == \E entry \in RegistryEntries : upsert_registry_entry(entry)

SpecRegistry == InitRegistry /\ [][NextRegistry]_vars

-----------------------------------------------------------------------------
(* claim_kin_agent_attribution/builder_codes.py: filter_builder_codes *)

\* codes handed to filter_builder_codes
MaxCodes == 2
\* addresses handed to filter_builder_codes
MaxFilterAddresses == 2

\* len(text) != 42
AddressLength == 42

\* the address 0x followed by forty times the digit c, and spellings of it
BuilderAddress(c) == <<"0", "x">> \o [i \in 1 .. 40 |-> c]
Unprefixed(address) == SubSeq(address, 3, Len(address))
Padded(address) == <<" ">> \o address \o <<" ">>
Shortened(address) == SubSeq(address, 1, Len(address) - 2)

\* BuilderCode objects: dex and builder_address, the address as parse_builder_codes
\* leaves it (normalised)
BuilderCodes ==
    {[dex |-> "solarak1n", builder_address |-> BuilderAddress("a")],
     [dex |-> "keeper_f303", builder_address |-> BuilderAddress("b")],
     [dex |-> "atlas_core", builder_address |-> BuilderAddress("3")]}

\* values found in the addresses argument
FilterAddresses ==
    {BuilderAddress("3"), BuilderAddress("A"), Unprefixed(BuilderAddress("b")),
     Padded(BuilderAddress("a")), Shortened(BuilderAddress("3")), EmptyStr, NoneAddr}

_normalise_address(value) ==
    LET text == Strip(value)
        prefixed == IF StartsWith(text, <<"0", "x">>) THEN text ELSE <<"0", "x">> \o text
        lowered == Lower(prefixed)
    IN  IF text = EmptyStr THEN NoneAddr
        ELSE IF Len(lowered) # AddressLength THEN NoneAddr
        ELSE lowered

\* the set of lines 192-193: the normalised forms of the str elements, None
\* and the empty string left out
NormalisedSet(addresses) ==
    {addr \in {_normalise_address(addresses[i]) :
                  i \in {j \in DOMAIN addresses : addresses[j] # NoneAddr}} :
        Truthy(addr)}

FilteredCodes(codes, addresses) ==
    IF NormalisedSet(addresses) = {}
    THEN codes
    ELSE SelectSeq(codes, LAMBDA code : code.builder_address \in NormalisedSet(addresses))

builder_frame == <<exchangeVars, threadVars, sessions, keccakVars, signature_run, enforce_run,
                   github_run, claim_files, payments_run, scan_run, report_run, withdraw_run,
                   fetch_run, registry_run, search_run, caller_run>>

filter_builder_codes ==
    /\ builder_run.pc = "call"
    /\ builder_run' = [builder_run EXCEPT
          !.pc = "returned",
          !.result = FilteredCodes(builder_run.codes, builder_run.addresses)]
    /\ UNCHANGED builder_frame

InitBuilder ==
    /\ IdleExchange
    /\ IdleThreads
    /\ IdlePhantom
    /\ IdleKeccak
    /\ signature_run = <<>>
    /\ enforce_run = <<>>
    /\ github_run = <<>>
    /\ claim_files = <<>>
    /\ payments_run = <<>>
    /\ scan_run = <<>>
    /\ report_run = <<>>
    /\ withdraw_run = <<>>
    /\ fetch_run = <<>>
    /\ registry_run = <<>>
    /\ search_run = <<>>
    /\ caller_run = <<>>
    /\ \E codes \in UNION {[1 .. n -> BuilderCodes] : n \in 0 .. MaxCodes},
          addresses \in UNION {[1 .. n -> FilterAddresses] : n \in 0 .. MaxFilterAddresses} :
          builder_run = [pc |-> "call", codes |-> codes, addresses |-> addresses,
                         result |-> <<>>]

NextBuilder == filter_builder_codes

SpecBuilder == InitBuilder /\ [][NextBuilder]_vars

-----------------------------------------------------------------------------
(* scan_user_proof_hub.py: BlockscoutExplorer.iter_text_search, its caller  *)
(* taking every item the generator yields.                                  *)

\* requests one iteration makes at most
MaxRequests == 3
\* the largest max_pages argument
MaxPagesArg == 2
\* items the explorer puts in one page at most
MaxPageItems == 3

PageSizes == {1, 2}
\* max_pages arguments; NoneInt is None
MaxPagesArgs == {NoneInt} \cup (0 .. MaxPagesArg)

\* what the explorer answers to one request: a page of so many items, or a
\* status other than 200
PageOfItems(n) == [kind |-> "page", items |-> n]
ExplorerFails == [kind |-> "ExplorerError", items |-> 0]
PageOutcomes == {PageOfItems(n) : n \in 0 .. MaxPageItems} \cup {ExplorerFails}

\* a faulty variant: the loop goes on until more than max_pages pages were seen
MaxPagesPassed(max_pages, pages_seen) ==
    max_pages # NoneInt /\ pages_seen > max_pages

\* max_pages is not None and pages_seen >= max_pages
MaxPagesReached(max_pages, pages_seen) ==
    max_pages # NoneInt /\ pages_seen >= max_pages

search_frame == <<exchangeVars, threadVars, sessions, keccakVars, signature_run, enforce_run,
                  github_run, claim_files, payments_run, scan_run, report_run, withdraw_run,
                  fetch_run, registry_run, builder_run, caller_run>>

\* one turn of the while loop, the explorer answering outcome to its request
iter_text_search(outcome) ==
    /\ search_run.pc = "loop"
    /\ Len(search_run.requests) < MaxRequests
    /\ search_run' =
          IF MaxPagesReached(search_run.max_pages, search_run.pages_seen)
          THEN [search_run EXCEPT !.pc = "done"]
          ELSE IF outcome.kind = "ExplorerError"
          THEN [search_run EXCEPT !.pc = "raised",
                                  !.requests = Append(@, search_run.page)]
          ELSE [search_run EXCEPT
                   !.requests = Append(@, search_run.page),
                   !.pages = Append(@, outcome.items),
                   !.yielded = @ + outcome.items,
                   !.pc = IF outcome.items = 0 \/ outcome.items < search_run.page_size
                          THEN "done" ELSE "loop",
                   !.page = IF outcome.items = 0 \/ outcome.items < search_run.page_size
                            THEN @ ELSE @ + 1,
                   !.pages_seen = IF outcome.items = 0 \/ outcome.items < search_run.page_size
                                  THEN @ ELSE @ + 1]
    /\ UNCHANGED search_frame

InitSearch ==
    /\ IdleExchange
    /\ IdleThreads
    /\ IdlePhantom
    /\ IdleKeccak
    /\ signature_run = <<>>
    /\ enforce_run = <<>>
    /\ github_run = <<>>
    /\ claim_files = <<>>
    /\ payments_run = <<>>
    /\ scan_run = <<>>
    /\ report_run = <<>>
    /\ withdraw_run = <<>>
    /\ fetch_run = <<>>
    /\ registry_run = <<>>
    /\ builder_run = <<>>
    /\ caller_run = <<>>
    /\ \E page_size \in PageSizes, max_pages \in MaxPagesArgs :
          search_run = [pc |-> "loop", page_size |-> page_size, max_pages |-> max_pages,
                        page |-> 1, pages_seen |-> 0, requests |-> <<>>, pages |-> <<>>,
                        yielded |-> 0]

NextSearch == \E outcome \in PageOutcomes : iter_text_search(outcome)

\* the caller's for loop asks for the next item as long as the generator lives
SpecSearch == InitSearch /\ [][NextSearch]_vars /\ WF_vars(NextSearch)

-----------------------------------------------------------------------------
(* Properties of the pending registry *)

UpperChars == {"A", "B", "C", "D", "E", "F"}
IsLowerCased(s) == \A i \in DOMAIN s : s[i] \notin UpperChars

\* two spellings that differ at most in letter case
SameIgnoringCase(a, b) ==
    /\ Len(a) = Len(b)
    /\ \A i \in DOMAIN a : a[i] = b[i] \/ LowerChar(a[i]) = b[i] \/ a[i] = LowerChar(b[i])

Last(q) == q[Len(q)]
Front(q) == SubSeq(q, 1, Len(q) - 1)

\* C1: for every signer address, pending_unsigned_actions(address) yields that
\* signer's records in the order of the bulk_orders_tx calls that queued them
\* (calls for other signers in between), none missing and none twice, as long
\* as clear_unsigned_actions has not removed them.
C1_PendingInCallOrder ==
    /\ \A a \in Addresses :
          PendingOf(unsigned_actions, a) = RecordsFor(history, Lower(a))
    /\ (op.name = "pending_unsigned_actions" /\ op.address # NoneAddr)
          => ret.val = RecordsFor(history, Lower(op.address))

C1_Witness ==
    /\ op.name = "pending_unsigned_actions"
    /\ op.address = Addr1
    /\ Len(ret.val) = 2
    /\ ret.val[1] # ret.val[2]
    /\ Len(history) = 3
    /\ history[1].key = Lower(Addr1)
    /\ history[2].key # Lower(Addr1)
    /\ history[3].key = Lower(Addr1)

\* C3: every key of the registry is a lower-cased address, every stored
\* record's signer field equals its key, and pending_unsigned_actions and
\* clear_unsigned_actions act on the same entry for two spellings of an address
\* that differ only in letter case.
C3_KeysLowerCased ==
    /\ \A i \in DOMAIN unsigned_actions :
          /\ IsLowerCased(unsigned_actions[i].key)
          /\ \A j \in DOMAIN unsigned_actions[i].records :
                unsigned_actions[i].records[j].signer = unsigned_actions[i].key
    /\ \A a, b \in Addresses :
          SameIgnoringCase(a, b) =>
             /\ PendingOf(unsigned_actions, a) = PendingOf(unsigned_actions, b)
             /\ ClearedRegistry(unsigned_actions, a) = ClearedRegistry(unsigned_actions, b)
    /\ \A a \in Addresses :
          /\ PendingOf(unsigned_actions, a) # <<>> => Lower(a) \in DictKeys(unsigned_actions)
          /\ Lower(a) \in DictKeys(unsigned_actions)
                => ClearedRegistry(unsigned_actions, a) # unsigned_actions

C3_Witness ==
    /\ op.name = "pending_unsigned_actions"
    /\ op.address = Addr1
    /\ ~IsLowerCased(op.address)
    /\ ret.val # <<>>
    /\ Len(unsigned_actions) = 2
    /\ before.wallet = Addr2

\* C4: clear_unsigned_actions(address) removes all records of that signer and
\* leaves every other signer's records as they were, in the same order;
\* without an address it empties the registry; clearing an address that has
\* no records changes nothing; it never raises.
C4_ClearRemovesOneSigner ==
    op.name = "clear_unsigned_actions" =>
       /\ ret.kind = "none"
       /\ IF op.address = NoneAddr
          THEN unsigned_actions = <<>>
          ELSE /\ unsigned_actions =
                     SelectSeq(before.unsigned_actions, LAMBDA e : e.key # Lower(op.address))
               /\ \A a \in Addresses :
                     PendingOf(unsigned_actions, a) =
                        IF Lower(a) = Lower(op.address)
                        THEN <<>>
                        ELSE PendingOf(before.unsigned_actions, a)
               /\ PendingOf(before.unsigned_actions, op.address) = <<>>
                     => unsigned_actions = before.unsigned_actions

C4_Witness ==
    /\ op.name = "clear_unsigned_actions"
    /\ op.address = Addr1
    /\ Len(PendingOf(before.unsigned_actions, Addr1)) = 2
    /\ unsigned_actions # <<>>
    /\ PendingOf(unsigned_actions, Addr2) = PendingOf(before.unsigned_actions, Addr2)

\* C5: submit_signed_action(action, signature, nonce) makes exactly one post,
\* to the path "/exchange", with a payload that carries the given action,
\* signature and nonce, and returns what the transport answered.
C5_SubmitPostsOnce ==
    op.name = "submit_signed_action" =>
       /\ Len(posted) = Len(before.posted) + 1
       /\ Front(posted) = before.posted
       /\ Last(posted).path = "/exchange"
       /\ Last(posted).payload.action = op.action
       /\ Last(posted).payload.signature = op.signature
       /\ Last(posted).payload.nonce = op.nonce
       /\ ret = Return(op.response)

C5_Witness ==
    /\ op.name = "submit_signed_action"
    /\ op.action = TransferAction
    /\ op.nonce = 123
    /\ ret.val = "err"
    /\ Len(posted) = 2
    /\ posted[1].payload.nonce # 123

\* C6: bulk_orders_tx returns a mapping with the fields action, nonce,
\* typed_data, vault_address and expires_after: the wire-formatted order
\* action, the timestamp of the call, the typed data built from that action,
\* vault address, nonce, expiry and network flag, and the session's vault
\* address and expiry.
C6_ReturnsUnsignedPayload ==
    (op.name = "bulk_orders_tx" /\ ret.kind = "return") =>
       /\ DOMAIN ret.val = {"action", "nonce", "typed_data", "vault_address", "expires_after"}
       /\ ret.val.nonce = op.timestamp
       /\ ret.val.vault_address = vault_address
       /\ ret.val.expires_after = expires_after
       /\ ret.val.action = OrderAction(op.order_requests, op.builder)
       /\ ret.val.typed_data =
             get_l1_action_data(OrderAction(op.order_requests, op.builder), vault_address,
                                op.timestamp, expires_after, is_mainnet_url)

\* C7: bulk_orders_tx neither signs nor posts; all it changes in the Exchange
\* is one record appended to the list of the lower-cased owner address (the
\* wallet's, else account_address), nothing when there is no owner address;
\* the nonce, vaultAddress and expiresAfter of the record are those bound
\* into its typedData.
C7_BulkOrdersTxOnlyQueues ==
    op.name = "bulk_orders_tx" =>
       LET owner == IF Truthy(before.wallet) THEN before.wallet ELSE before.account_address
           k == Lower(owner)
           old == before.unsigned_actions
       IN  /\ signed = before.signed
           /\ posted = before.posted
           /\ wallet = before.wallet
           /\ account_address = before.account_address
           /\ vault_address = before.vault_address
           /\ expires_after = before.expires_after
           /\ is_mainnet_url = before.is_mainnet_url
           /\ IF ret.kind = "raise" \/ ~Truthy(owner)
              THEN unsigned_actions = old
              ELSE /\ IsLowerCased(k)
                   /\ DictKeys(unsigned_actions) = DictKeys(old) \cup {k}
                   /\ \A o \in DictKeys(old) \ {k} :
                         DictGet(unsigned_actions, o) = DictGet(old, o)
                   /\ Front(DictGet(unsigned_actions, k)) = DictGet(old, k)
                   /\ LET r == Last(DictGet(unsigned_actions, k))
                          h == r.typedData.message.connectionId
                      IN  /\ r.signer = k
                          /\ r.typedData = ret.val
                          /\ h.nonce = r.nonce
                          /\ h.hasVault = (r.vaultAddress # NoneAddr)
                          /\ h.hasVault => h.vault = Lower(r.vaultAddress)
                          /\ h.hasExpiry = (r.expiresAfter # NoneInt)
                          /\ h.hasExpiry => h.expiry = r.expiresAfter
                          /\ h.action = r.action

C7_Witness ==
    /\ op.name = "bulk_orders_tx"
    /\ ret.kind = "return"
    /\ before.unsigned_actions # <<>>
    /\ Len(DictGet(unsigned_actions, Lower(Addr1))) = 2
    /\ Last(DictGet(unsigned_actions, Lower(Addr1))).expiresAfter = 1
    /\ Last(DictGet(unsigned_actions, Lower(Addr1))).vaultAddress = VaultAddr
    /\ before.wallet = Addr1

-----------------------------------------------------------------------------
(* Properties of the phantom sessions *)

\* C8: for every action, nonce, vault address and expiry, the sessions
\* prepared with is_mainnet=True and with is_mainnet=False carry the same
\* action_hash_bytes; they differ at most in phantom_agent, typed_payload and
\* is_mainnet.
C8_ActionHashIgnoresNetwork ==
    (sessions.mainnet # <<>> /\ sessions.testnet # <<>>) =>
       LET m == sessions.mainnet[1]
           t == sessions.testnet[1]
       IN  /\ m.action_hash_bytes = t.action_hash_bytes
           /\ m.action = t.action
           /\ m.nonce = t.nonce
           /\ m.vault_address = t.vault_address
           /\ m.expires_after = t.expires_after
           /\ m.phantom_agent.connectionId = m.action_hash_bytes
           /\ t.phantom_agent.connectionId = t.action_hash_bytes

C8_Witness ==
    /\ sessions.mainnet # <<>>
    /\ sessions.testnet # <<>>
    /\ sessions.input[2] = Addr1
    /\ sessions.input[4] = 1701
    /\ sessions.mainnet[1].is_mainnet
    /\ ~sessions.testnet[1].is_mainnet
    /\ sessions.mainnet[1].phantom_agent # sessions.testnet[1].phantom_agent
    /\ sessions.mainnet[1].typed_payload # sessions.testnet[1].typed_payload

-----------------------------------------------------------------------------
(* Properties of the Keccak-256 copies *)

\* the last block of multi-rate padding for the r bytes left over, r < Rate
PaddedTail(tail) ==
    [i \in 1 .. Rate |->
        IF i <= Len(tail) THEN tail[i]
        ELSE IF i = Len(tail) + 1 /\ i = Rate THEN 129
        ELSE IF i = Len(tail) + 1 THEN 1
        ELSE IF i = Rate THEN 128
        ELSE 0]

\* the blocks of the padded input: the full blocks, then the padded tail
PaddedBlocks(data) ==
    LET full == Len(data) \div Rate
    IN  [i \in 1 .. full + 1 |->
            IF i <= full
            THEN SubSeq(data, Rate * (i - 1) + 1, Rate * i)
            ELSE PaddedTail(SubSeq(data, Rate * full + 1, Len(data)))]

\* C9: scan_hyperliquid_vaults.keccak256 absorbs floor(L/136)+1 blocks for an
\* input of L bytes: the full input blocks as they are, then one block made of
\* the L mod 136 bytes left, 0x01, zeros, and 0x80 XORed into byte 135 (0x81
\* when 135 bytes are left, a block of padding alone when none is); the
\* permutation runs once per block and the squeeze adds no call.
C9_ScanAbsorbsPaddedBlocks ==
    /\ kscan.perms = Len(kscan.absorbed) \/ kscan.pc = "done"
    /\ \A i \in DOMAIN kscan.absorbed : kscan.absorbed[i] = PaddedBlocks(kdata)[i]
    /\ kscan.pc \in {"squeeze", "done"} =>
          /\ Len(kscan.absorbed) = (Len(kdata) \div Rate) + 1
          /\ kscan.absorbed = PaddedBlocks(kdata)
    /\ kscan.pc = "done" =>
          /\ kscan.perms = (Len(kdata) \div Rate) + 1
          /\ kscan.digest[1].squeezePerms = 0
          /\ kscan.digest[1].absorbed = PaddedBlocks(kdata)

C9_Witness ==
    /\ kscan.pc = "done"
    /\ Len(kdata) = 271
    /\ Len(kscan.absorbed) = 2
    /\ kscan.absorbed[2][135] = 14
    /\ kscan.absorbed[2][136] = 129
    /\ kscan.perms = 2

\* C10: for every input length find_solara_vaults.keccak absorbs the same
\* padded blocks as _keccak256_reference and as
\* scan_hyperliquid_vaults.keccak256, and so returns the same digest.
C10_SolaraMatchesReference ==
    (ksolara.pc = "done" /\ kref.pc = "done" /\ kscan.pc = "done") =>
       /\ ksolara.absorbed = kref.absorbed
       /\ ksolara.absorbed = kscan.absorbed
       /\ ksolara.digest = kref.digest
       /\ ksolara.digest = kscan.digest

-----------------------------------------------------------------------------
(* Properties of the registry under threads *)

IsPrefix(p, q) == Len(p) <= Len(q) /\ SubSeq(q, 1, Len(p)) = p

\* every record whose append has completed is in its signer's list, in order
NoRecordLost ==
    \A k \in {Lower(a) : a \in Addresses} :
        DictGet(unsigned_actions, k) = RecordsFor(appended, k)

\* no pending_unsigned_actions call has ended in an exception
NoCallFails == snapshots = <<>> \/ snapshots[1].result.kind = "return"

\* what a call returned holds, for each signer, a prefix of the signer's records
SnapshotConsistent ==
    (snapshots # <<>> /\ snapshots[1].result.kind = "return") =>
        \A k \in {Lower(a) : a \in Addresses} :
            IsPrefix(SelectSeq(snapshots[1].result.val, LAMBDA r : r.signer = k),
                     DictGet(unsigned_actions, k))

\* C2: with several threads in bulk_orders_tx and one in
\* pending_unsigned_actions on the same Exchange, no appended record is lost,
\* no call fails because of the interleaving, and every snapshot returned
\* holds, for each signer, a prefix of that signer's records in append order.
C2_ConcurrentAppendAndSnapshot ==
    /\ NoRecordLost
    /\ NoCallFails
    /\ SnapshotConsistent

-----------------------------------------------------------------------------
(* Properties of the signature normalisers *)

\* the shapes a raw signature may have: a mapping with r, s and v, an object
\* with r, s and v attributes, a blob of 65 bytes
WellShaped(raw) ==
    \/ raw.type \in {"dict", "mappingproxy"} /\ SigFields \subseteq DOMAIN raw.items
    \/ raw.type = "object" /\ SigFields \subseteq DOMAIN raw.attrs
    \/ raw.type \in {"bytes", "bytearray"} /\ Len(raw.data) = 65

\* C11: whenever sign_message returns, what it returns holds r, s and v, and
\* the raw signature was a mapping with r, s and v, an object with r, s and v
\* attributes or a blob of 65 bytes (of which bytes 0-31 are r, 32-63 are s and
\* byte 64 is v); every other raw value makes it fail.
C11_SignMessageRejectsMalformed ==
    (signature_run # <<>> /\ signature_run.fn = "sign_message" /\ signature_run.result # <<>>
        /\ signature_run.result[1].kind = "return") =>
        /\ SigFields \subseteq DOMAIN signature_run.result[1].val
        /\ WellShaped(signature_run.raw)
        /\ signature_run.raw.type \in {"bytes", "bytearray"} =>
              /\ signature_run.result[1].val["r"]
                    = IntFromBytesBig(BytesSlice(signature_run.raw.data, 0, 32))
              /\ signature_run.result[1].val["s"]
                    = IntFromBytesBig(BytesSlice(signature_run.raw.data, 32, 64))
              /\ signature_run.result[1].val["v"] = <<signature_run.raw.data[65]>>

\* a 0x-prefixed string of exactly 130 hex characters
IsPrefixedHex130(text) ==
    /\ Len(text) = SigHexLen + 2
    /\ StartsWith(text, <<"0", "x">>)
    /\ \A i \in 3 .. Len(text) : IsHex(text[i])

\* C12: a signature is accepted only as a 0x-prefixed hex string of exactly
\* 130 hex characters: the recovery of the signer is invoked for no other
\* text, and a text of any other length fails with the format error before
\* the recovery is attempted.
C12_OnlyPrefixedHex130Accepted ==
    (signature_run # <<>> /\ signature_run.fn = "recover_signer" /\ signature_run.result # <<>>) =>
        /\ signature_run.recover_calls # <<>> => IsPrefixedHex130(signature_run.raw)
        /\ ~IsPrefixedHex130(signature_run.raw) =>
              /\ signature_run.result[1].kind = "raise"
              /\ signature_run.result[1].val \in {"ValueError", "RuntimeError"}
              /\ signature_run.recover_calls = <<>>

-----------------------------------------------------------------------------
(* Properties of the claim verification *)

\* C13: verify_signature returns (True, recovered) when expected_signer is
\* None, and otherwise (b, recovered) where b is true exactly when the
\* recovered address and expected_signer are equal ignoring letter case.
C13_VerifySignatureResult ==
    (enforce_run # <<>> /\ enforce_run.verdict # <<>>) =>
        /\ enforce_run.verdict[2] = enforce_run.recovered
        /\ enforce_run.expected_signer = NoneAddr => enforce_run.verdict[1] = TRUE
        /\ enforce_run.expected_signer # NoneAddr =>
              (enforce_run.verdict[1]
                  <=> SameIgnoringCase(enforce_run.recovered, enforce_run.expected_signer))

C13_Witness ==
    /\ enforce_run # <<>>
    /\ enforce_run.expected_signer = Addr1Upper
    /\ enforce_run.verdict = <<TRUE, Addr1>>

\* the run got past validate_hash, or stopped in it
HashChecked(run) == run.hashed # PyNone /\ run.entry # "create_registry_entry"

\* C14: validate_hash raises exactly when the hash file is given and missing,
\* or its stripped content is non-empty and differs from the SHA-256 of the
\* payload's sorted-key serialization; when it returns, it returns that
\* hash, and the payload is as it was.
C14_ValidateHashRaisesExactly ==
    (enforce_run # <<>> /\ HashChecked(enforce_run)) =>
        LET run == enforce_run
            fresh == HexDigest(JsonDumps(run.hashed, TRUE))
            file == run.hash_file
        IN  /\ (run.failed_at = "hash") <=>
                  \/ file.given /\ ~file.exists
                  \/ file.given /\ file.exists /\ file.text # EmptyText /\ file.text # fresh
            /\ run.failed_at # "hash" => run.hash_value = fresh
            /\ run.payload = run.hashed

C14_Witness ==
    /\ enforce_run # <<>>
    /\ enforce_run.entry = "codex_enforce.main"
    /\ enforce_run.failed_at = "hash"
    /\ enforce_run.raised = "ValueError"
    /\ enforce_run.hash_file.text = DigestUpper(_compute_claim_hash(enforce_run.hashed))

\* C15: a signature that recovers to another address than the expected one
\* raises nothing: verify_signature returns (False, recovered); main ends
\* with exit status 1 for it when an expected signer was supplied, and with
\* 0 for every recovered signature when none was.
C15_MismatchIsExitStatus ==
    (enforce_run # <<>> /\ enforce_run.verdict # <<>>) =>
        LET run == enforce_run
            mismatch == run.expected_signer # NoneAddr
                            /\ ~SameIgnoringCase(run.recovered, run.expected_signer)
        IN  /\ run.raised = ""
            /\ mismatch => run.verdict = <<FALSE, run.recovered>>
            /\ run.pc = "done" =>
                  /\ run.exit \in {0, 1}
                  /\ run.exit = 1 => mismatch
                  /\ (mismatch /\ Truthy(run.expected_signer)) => run.exit = 1
                  /\ run.expected_signer = NoneAddr => run.exit = 0

C15_Witness ==
    /\ enforce_run # <<>>
    /\ enforce_run.entry = "enforce_withrawal.main"
    /\ enforce_run.pc = "done"
    /\ enforce_run.expected_signer = Addr1
    /\ enforce_run.verdict = <<FALSE, Addr2>>
    /\ enforce_run.exit = 1

\* C17: nothing between validate_hash and verify_signature changes the
\* payload: the document whose signer is recovered is the document that was
\* hashed.
C17_NotMutatedAfterHashing ==
    (enforce_run # <<>> /\ enforce_run.verified # PyNone) =>
        /\ enforce_run.hashed # PyNone
        /\ enforce_run.verified = enforce_run.hashed

C17_Witness ==
    /\ enforce_run # <<>>
    /\ enforce_run.entry = "enforce_withrawal.main"
    /\ enforce_run.loaded = DocNoTotal
    /\ enforce_run.verified = DocFull
    /\ enforce_run.verdict # <<>>

\* C18: the digest compared with the hash file is the digest of the claim
\* document exactly as it was loaded from the JSON file, also for a file with
\* flow_estimates and royalty_rates and no total_owed_usd.
C18_DigestOfDocumentAsLoaded ==
    (enforce_run # <<>> /\ enforce_run.hashed # PyNone) =>
        _compute_claim_hash(enforce_run.hashed) = _compute_claim_hash(enforce_run.loaded)

\* C16: the hash write_claim_files records equals the hash validate_hash
\* recomputes from the re-loaded claim file, so an untouched claim/hash pair
\* validates; once a single leaf of the claim has another value the
\* recomputed hash differs and validate_hash raises ValueError.
C16_WrittenHashRoundTrip ==
    claim_files.pc = "done" =>
        IF claim_files.changed = <<>>
        THEN /\ claim_files.hash_file.text = _compute_claim_hash(claim_files.loaded)
             /\ claim_files.result.kind = "return"
             /\ claim_files.result.val = WrittenHash(claim_files.payload)
        ELSE /\ claim_files.hash_file.text # _compute_claim_hash(claim_files.loaded)
             /\ claim_files.result.kind = "raise"
             /\ claim_files.result.val = "ValueError"

C16_Witness ==
    /\ claim_files.pc = "done"
    /\ claim_files.payload = DocWithComponents
    /\ Len(claim_files.changed) = 2
    /\ claim_files.result.kind = "raise"

\* C19: the mapping get_commit_authors returns has an entry for every
\* requested SHA; a SHA whose (last) fetch failed with a GitHub API error, an
\* HTTP error status or a body that is no JSON object, maps to None; and such
\* a failure never ends the call: every SHA after it is fetched as well.
FailedWithApiError(response) ==
    /\ response.sent
    /\ \/ response.status_code >= 400
       \/ response.json_ok /\ response.payload.t # "dict"

C19_EveryShaHasAnEntry ==
    /\ github_run.pc = "raised" =>
          ~FailedWithApiError(github_run.fetched[Len(github_run.fetched)])
    /\ github_run.pc = "returned" =>
          /\ Len(github_run.fetched) = Len(github_run.shas)
          /\ DOMAIN github_run.results = {github_run.shas[k] : k \in 1 .. Len(github_run.shas)}
          /\ \A k \in 1 .. Len(github_run.shas) :
                (/\ FailedWithApiError(github_run.fetched[k])
                 /\ \A m \in k + 1 .. Len(github_run.shas) :
                       github_run.shas[m] # github_run.shas[k])
                    => github_run.results[github_run.shas[k]] = NoDetails

C19_Witness ==
    /\ github_run.pc = "returned"
    /\ github_run.shas = <<"bad", "good">>
    /\ FailedWithApiError(github_run.fetched[1])
    /\ github_run.results["bad"] = NoDetails
    /\ github_run.results["good"].some

\* C20 (as amended): after a Mapping under "node" has taken the place of the
\* payload, _extract_commit_author_details picks the first of author (login,
\* name, email, and the login under author.user when author has none),
\* commit.author (name, email), committer (login, name, email) and
\* commit.committer (name, email) that carries a non-empty string there; the
\* source is that location, or "author.user" when the login came from
\* author.user; the fields returned are the non-empty strings of the location
\* and None otherwise; the result is None when no location carries one.
\* CommitAuthor.identifier is the first non-empty string of login, name, email.
Locations == <<"author", "commit.author", "committer", "commit.committer">>
IdentifierFields(loc) ==
    IF loc \in {"author", "committer"} THEN {"login", "name", "email"} ELSE {"name", "email"}
NonEmptyStr(value) == value.t = "str" /\ value.s # ""
LocationOf(commit, loc) ==
    IF loc = "author" THEN commit.author
    ELSE IF loc = "committer" THEN commit.committer
    ELSE IF commit.commit.t # "dict" THEN AbsentObj
    ELSE IF loc = "commit.author" THEN commit.commit.author
    ELSE commit.commit.committer
Carries(commit, loc) ==
    /\ LocationOf(commit, loc).t = "dict"
    /\ \E f \in IdentifierFields(loc) : NonEmptyStr(LocationOf(commit, loc)[f])
UserLogin(commit, loc) ==
    LET obj == LocationOf(commit, loc)
    IN  IF loc = "author" /\ obj.t = "dict" /\ ~NonEmptyStr(obj.login)
           /\ obj.user.t = "dict" /\ NonEmptyStr(obj.user.login)
        THEN obj.user.login ELSE NoneV
Unwrapped(payload) ==
    IF payload.node # <<>> /\ payload.node[1].t = "dict" THEN payload.node[1] ELSE payload
FirstOf(carrying) == CHOOSE i \in carrying : \A k \in carrying : i <= k
FirstNonEmpty(values) ==
    LET found == {i \in 1 .. Len(values) : NonEmptyStr(values[i])}
    IN  IF found = {} THEN NoneV ELSE values[FirstOf(found)]
IdentifierIsFirstNonEmpty ==
    github_run.identifier =
        FirstNonEmpty(<<github_run.details.login, github_run.details.name,
                        github_run.details.email>>)

C20_FirstCarryingLocation ==
    github_run.pc = "returned" =>
        /\ github_run.op = "identifier" \/ github_run.details.some => IdentifierIsFirstNonEmpty
        /\ github_run.op = "_extract_commit_author_details" =>
            LET commit == Unwrapped(github_run.payload)
                carrying == {i \in 1 .. 4 : Carries(commit, Locations[i])
                                             \/ UserLogin(commit, Locations[i]) # NoneV}
                loc == Locations[FirstOf(carrying)]
                obj == LocationOf(commit, loc)
                kept(f) == IF f \in IdentifierFields(loc) /\ NonEmptyStr(obj[f])
                           THEN obj[f] ELSE NoneV
            IN  IF github_run.payload.t # "dict" \/ carrying = {}
                THEN github_run.details = NoDetails
                ELSE github_run.details =
                        CommitAuthor(IF UserLogin(commit, loc) # NoneV
                                     THEN UserLogin(commit, loc) ELSE kept("login"),
                                     kept("name"), kept("email"),
                                     StrOf(IF UserLogin(commit, loc) # NoneV
                                           THEN "author.user" ELSE loc))

C20_Witness ==
    /\ github_run.pc = "returned"
    /\ github_run.op = "_extract_commit_author_details"
    /\ github_run.payload.author = Obj(EmptyV, IntV, EmptyV, NoUser)
    /\ github_run.payload.commit.t = "dict"
    /\ github_run.payload.commit.author = Obj(StrOf("anon-login"), NoneV, NoneV, NoUser)
    /\ github_run.payload.committer.t = "dict"
    /\ github_run.details.source = StrOf("commit.committer")
    /\ github_run.identifier = StrOf("raw@example.com")

\* C20 (as stated): the first of the four locations of the payload, in the
\* order author, commit.author, committer, commit.committer, that carries a
\* non-empty string among its identifier fields is reported as source, and the
\* result is None when none does; identifier is the first non-empty of login,
\* name, email.
C20_AsStated ==
    github_run.pc = "returned" =>
        /\ github_run.op = "identifier" \/ github_run.details.some => IdentifierIsFirstNonEmpty
        /\ github_run.op = "_extract_commit_author_details" =>
            LET carrying == {i \in 1 .. 4 : Carries(github_run.payload, Locations[i])}
            IN  IF github_run.payload.t # "dict" \/ carrying = {}
                THEN github_run.details = NoDetails
                ELSE /\ github_run.details.some
                     /\ github_run.details.source = StrOf(Locations[FirstOf(carrying)])

\* C21: for every list of ledger updates extract_payment_settlements returns
\* a list: sorted by non-decreasing time_ms with equal times in input order,
\* holding exactly the entries that are mappings with a mapping delta and an
\* extractable, non-zero USD amount, each labelled credit when its amount is
\* positive and debit when negative; total_settlement_amount is the sum of the
\* signed amounts.
HasSettlement(entry) ==
    /\ entry.is_dict
    /\ entry.delta_is_dict
    /\ _extract_amount_from_delta(entry.delta) \notin {NoneDec, Dec(0)}
HashesAt(settlements, time_ms) ==
    LET At(s) == s.time_ms = time_ms
        kept == SelectSeq(settlements, At)
    IN  [i \in 1 .. Len(kept) |-> kept[i].tx_hash]
InputHashesAt(updates, time_ms) ==
    LET At(entry) == HasSettlement(entry)
                        /\ (IF entry.time = <<>> THEN 0 ELSE entry.time[1].n) = time_ms
        kept == SelectSeq(updates, At)
    IN  [i \in 1 .. Len(kept) |-> kept[i].hash]
SumOfAmounts(settlements) ==
    LET sum[i \in 0 .. Len(settlements)] ==
            IF i = 0 THEN 0 ELSE sum[i - 1] + settlements[i].amount_usd.n
    IN  sum[Len(settlements)]

C21_SettlementsSortedAndSigned ==
    /\ payments_run.pc # "raised"
    /\ payments_run.pc \in {"extracted", "summed"} =>
          LET settlements == payments_run.result.val
          IN  /\ \A i \in 1 .. Len(settlements) - 1 :
                    settlements[i].time_ms <= settlements[i + 1].time_ms
              /\ \A t \in 0 .. 2 :
                    HashesAt(settlements, t) = InputHashesAt(payments_run.updates, t)
              /\ \A i \in 1 .. Len(settlements) :
                    /\ settlements[i].amount_usd.k = "num"
                    /\ settlements[i].amount_usd.n # 0
                    /\ settlements[i].direction = "credit" <=> settlements[i].amount_usd.n > 0
                    /\ settlements[i].direction = "debit" <=> settlements[i].amount_usd.n < 0
    /\ payments_run.pc = "summed" =>
          payments_run.total = Dec(SumOfAmounts(payments_run.result.val))

\* C22: over all indicators and all search results of a scan_network run,
\* fetch_contract is called at most once per address, addresses compared
\* without regard to case, and the matches hold at most one entry per such
\* address.
NoTwoAlike(addresses) ==
    \A i, k \in 1 .. Len(addresses) : i # k => Lower(addresses[i]) # Lower(addresses[k])

C22_OneFetchPerAddress ==
    /\ NoTwoAlike(scan_run.fetched)
    /\ NoTwoAlike(scan_run.matches)

C22_Witness ==
    /\ scan_run.pc = "returned"
    /\ \E i, k \in 1 .. Len(scan_run.yielded) :
          /\ scan_run.yielded[i].address_hash = Addr1Upper
          /\ scan_run.yielded[k].address = Addr1
    /\ scan_run.errors > 0
    /\ Len(scan_run.fetched) = 2
    /\ Len(scan_run.matches) = 1

\* C23: build_proof_report leaves the template it is given unchanged; the
\* report's matching_addresses is the sorted, duplicate-free list of the
\* lower-cased addresses of all matches, its matching_contracts lists every
\* match of every network, networks in sorted order, and its match_count is
\* the length of matching_contracts.
AllMatchAddresses(matches_by_network) ==
    {a \in {Addr1Lower, Addr2Lower, Lower(Addr1Upper)} :
        \E i \in 1 .. Len(matches_by_network) :
            \E k \in 1 .. Len(matches_by_network[i].matches) :
                Lower(matches_by_network[i].matches[k].address) = a}
ContractsOf(contracts, network) ==
    LET Of(entry) == entry.network = network
    IN  SelectSeq(contracts, Of)

C23_ReportFromTemplate ==
    report_run.pc \in {"returned", "saved"} =>
        LET report == report_run.heap[report_run.returned]
            addresses == report["matching_addresses"]
            contracts == report["matching_contracts"]
            given == report_run.matches_by_network
        IN  /\ report_run.heap["template"] = report_run.template
            /\ \A k \in DOMAIN report_run.template :
                  k \notin {"matching_addresses", "matching_contracts", "match_count"}
                     => report[k] = report_run.template[k]
            /\ \A i \in 1 .. Len(addresses) - 1 : StrLess(addresses[i], addresses[i + 1])
            /\ {addresses[i] : i \in 1 .. Len(addresses)} = AllMatchAddresses(given)
            /\ \A i \in 1 .. Len(contracts) - 1 :
                  NetworkRank(contracts[i].network) <= NetworkRank(contracts[i + 1].network)
            /\ \A i \in 1 .. Len(given) :
                  LET listed == ContractsOf(contracts, given[i].network)
                  IN  /\ Len(listed) = Len(given[i].matches)
                      /\ \A k \in 1 .. Len(listed) :
                            listed[k] = ContractEntry(given[i].network, given[i].matches[k])
            /\ \A i \in 1 .. Len(contracts) :
                  \E n \in 1 .. Len(given) : given[n].network = contracts[i].network
            /\ report["match_count"] = Len(contracts)

C23_Witness ==
    /\ report_run.pc = "saved"
    /\ "match_count" \in DOMAIN report_run.template
    /\ Len(report_run.matches_by_network) = 2
    /\ report_run.matches_by_network[1].network = "base"
    /\ report_run.saved["match_count"] = 3
    /\ Len(report_run.saved["matching_addresses"]) = 2

\* C24: with an amount <= 0 perform_withdrawal raises ValueError with no
\* exchange constructed and no withdraw_from_bridge call made; with a positive
\* amount it constructs one exchange and, once that exists, makes exactly one
\* withdraw_from_bridge call, with float(amount) and the destination, and
\* returns the response of that call.
C24_GuardBeforeExchange ==
    LET amount == withdraw_run.amount
        positive == amount.k = "tiny" \/ (amount.k = "num" /\ amount.n > 0)
    IN  /\ (amount.k = "num" /\ amount.n <= 0) =>
              /\ withdraw_run.constructed = <<>>
              /\ withdraw_run.calls = <<>>
              /\ withdraw_run.pc # "check" =>
                    withdraw_run.pc = "raised" /\ withdraw_run.raised = "ValueError"
        /\ Len(withdraw_run.constructed) <= 1
        /\ Len(withdraw_run.calls) <= 1
        /\ (positive /\ withdraw_run.pc # "check") =>
              (withdraw_run.pc = "construct" \/ Len(withdraw_run.constructed) = 1)
        /\ (positive /\ withdraw_run.pc \in {"returned", "raised"}
               /\ withdraw_run.raised # "ConstructorError") =>
              /\ Len(withdraw_run.calls) = 1
              /\ withdraw_run.calls[1].amount = ToFloat(amount)
              /\ withdraw_run.calls[1].destination = withdraw_run.destination
        /\ withdraw_run.pc = "returned" =>
              /\ positive
              /\ withdraw_run.returned = withdraw_run.calls[1].response

C24_Witness ==
    /\ withdraw_run.pc = "returned"
    /\ withdraw_run.amount = Dec(12345)
    /\ withdraw_run.exchange_cls = "factory"
    /\ withdraw_run.constructed[1].base_url = "https://api.example"
    /\ withdraw_run.calls = <<[amount |-> [float |-> 12345], destination |-> Addr2,
                               response |-> "status ok"]>>
    /\ withdraw_run.returned = "status ok"

\* C25: fetch_json with retries = r issues at most r + 1 requests and ends by
\* returning the decoded JSON or raising ExplorerError; a request is followed
\* by another one only after an HTTP status in {429, 500, 502, 503, 504} or a
\* URLError, with fewer than r retries made; any other HTTP status and
\* malformed JSON raise at once.
C25_BoundedRetries ==
    LET n == Len(fetch_run.requests)
    IN  /\ n <= fetch_run.retries + 1
        /\ fetch_run.pc = "raised" => fetch_run.raised = "ExplorerError"
        /\ fetch_run.pc = "returned" => fetch_run.requests[n].kind = "json"
        /\ \A i \in 1 .. n - 1 :
              /\ i <= fetch_run.retries
              /\ \/ fetch_run.requests[i].kind = "URLError"
                 \/ /\ fetch_run.requests[i].kind = "HTTPError"
                    /\ fetch_run.requests[i].status \in {429, 500, 502, 503, 504}
        /\ (n > 0 /\ \/ fetch_run.requests[n].kind = "not json"
                     \/ /\ fetch_run.requests[n].kind = "HTTPError"
                        /\ fetch_run.requests[n].status \notin {429, 500, 502, 503, 504})
              => fetch_run.pc = "raised"

-----------------------------------------------------------------------------
(* Properties of a recorded action submitted later *)

\* the pending records a submission was made from: those whose action and
\* nonce are the ones submitted
SubmittedRecords ==
    {record \in HeldRecords : record.action = op.action /\ record.nonce = op.nonce}

\* C26: when a record of bulk_orders_tx is submitted with submit_signed_action
\* under its own action and nonce, the posted payload carries the vaultAddress
\* and the expiresAfter stored in the record, whatever set_expires_after calls
\* came between recording and submitting.
C26_PayloadCarriesRecordedSettings ==
    op.name = "submit_signed_action" =>
        \A record \in SubmittedRecords :
            /\ posted[Len(posted)].payload.vaultAddress = record.vaultAddress
            /\ posted[Len(posted)].payload.expiresAfter = record.expiresAfter

-----------------------------------------------------------------------------
(* Properties of the registry under reads, posts and its caller's changes *)

\* C27: pending_unsigned_actions, set_expires_after and submit_signed_action
\* leave the pending registry as it is, and so does the caller adding to,
\* removing from or rebinding a top-level field in a list that
\* pending_unsigned_actions returned: a later pending_unsigned_actions call
\* returns the records bulk_orders_tx stored, unchanged.
C27_RegistryKeptFromCallers ==
    [][/\ op'.name \in {"pending_unsigned_actions", "set_expires_after",
                        "submit_signed_action", "caller"}
              => unsigned_actions' = unsigned_actions
       /\ op'.name = "pending_unsigned_actions"
              => /\ Len(ret'.val) = Len(history')
                 /\ op'.address # NoneAddr
                       => ret'.val = RecordsFor(history', Lower(op'.address))]_vars

\* the caller has rebound the nonce of a returned record, after a post, and
\* the stored record still carries the nonce it was recorded with
C27_Witness ==
    /\ op.name = "caller"
    /\ op.does = "rebind"
    /\ Len(posted) > 0
    /\ \E j \in DOMAIN caller_run.items :
          /\ caller_run.items[j].key # EmptyStr
          /\ caller_run.items[j].fields.nonce = 0
          /\ DictGet(unsigned_actions, caller_run.items[j].key)[caller_run.items[j].i].nonce # 0

-----------------------------------------------------------------------------
(* Properties of the registry file *)

\* the entry most recently upserted under claim_path, <<>> if there is none
LatestUpsert(upserts, claim_path) ==
    LET own == SelectSeq(upserts, LAMBDA e : e.claim_path = claim_path)
    IN  IF own = <<>> THEN <<>> ELSE own[Len(own)]

\* C28: from a registry list with pairwise distinct claim_path values, after
\* any calls of upsert_registry_entry the claim_path values are still pairwise
\* distinct; a call replaces the entry of the same claim_path where it stands,
\* the others and the length kept, or appends the entry (length + 1); the entry
\* stored for a claim_path is the one most recently upserted for it; and
\* upserting an entry a second time gives the registry the first time gave.
C28_UpsertKeepsOnePerClaimPath ==
    registry_run.file.kind # "object" =>
        LET registry == registry_run.file.data
            was == registry_run.before.data
            entry == registry_run.entry
        IN  /\ DistinctClaimPaths(registry)
            /\ registry_run.upserts # <<>> =>
                  /\ registry_run.result = Return(registry)
                  /\ \/ \E i \in DOMAIN was :
                           /\ was[i].claim_path = entry.claim_path
                           /\ Len(registry) = Len(was)
                           /\ registry[i] = entry
                           /\ \A j \in DOMAIN was : j # i => registry[j] = was[j]
                     \/ /\ \A i \in DOMAIN was : was[i].claim_path # entry.claim_path
                        /\ Len(registry) = Len(was) + 1
                        /\ registry[Len(registry)] = entry
                        /\ \A j \in DOMAIN was : registry[j] = was[j]
            /\ \A i \in DOMAIN registry :
                  LET latest == LatestUpsert(registry_run.upserts, registry[i].claim_path)
                  IN  IF latest = <<>>
                      THEN \E j \in DOMAIN registry_run.first : registry_run.first[j] = registry[i]
                      ELSE registry[i] = latest
            /\ \A again \in RegistryEntries :
                  Upserted(Upserted(registry, again), again) = Upserted(registry, again)

\* an entry has been replaced where it stood, an earlier and a later entry
\* around it, by an entry that differs from it
C28_Witness ==
    /\ registry_run.file.kind = "list"
    /\ Len(registry_run.upserts) = MaxUpserts
    /\ Len(registry_run.file.data) >= 2
    /\ \E i \in DOMAIN registry_run.before.data :
          /\ i < Len(registry_run.before.data)
          /\ registry_run.before.data[i].claim_path = registry_run.entry.claim_path
          /\ registry_run.before.data[i] # registry_run.entry

-----------------------------------------------------------------------------
(* Properties of filter_builder_codes *)

\* the codes of the list whose builder_address is the normalised form of one
\* of the addresses, in the order of the list
CodesOfAddresses(codes, addresses) ==
    SelectSeq(codes, LAMBDA code :
        \E i \in DOMAIN addresses :
            /\ addresses[i] # NoneAddr
            /\ code.builder_address = _normalise_address(addresses[i]))

\* C29: with at least one filter address supplied, filter_builder_codes returns,
\* in input order, only the codes whose builder_address is the normalised form
\* (0x-prefixed, lower-cased, 42 characters) of a supplied address; all codes are
\* returned only when no address is supplied.
C29_OnlyCodesOfSuppliedAddresses ==
    builder_run.pc = "returned" =>
        IF builder_run.addresses = <<>>
        THEN builder_run.result = builder_run.codes
        ELSE builder_run.result = CodesOfAddresses(builder_run.codes, builder_run.addresses)

-----------------------------------------------------------------------------
(* Properties of iter_text_search *)

\* pages 1, 2, 3, ... were requested in order, and every page but the last
\* held page_size items or more
PagesInOrder ==
    /\ \A i \in DOMAIN search_run.requests : search_run.requests[i] = i
    /\ \A i \in DOMAIN search_run.pages :
          i < Len(search_run.pages) =>
              search_run.pages[i] > 0 /\ search_run.pages[i] >= search_run.page_size
    /\ (/\ search_run.pages # <<>>
        /\ \/ search_run.pages[Len(search_run.pages)] = 0
           \/ search_run.pages[Len(search_run.pages)] < search_run.page_size)
          => search_run.pc = "done"

\* no page held more items than were asked for
NoPageOverfull ==
    \A i \in DOMAIN search_run.pages : search_run.pages[i] <= search_run.page_size

====
